---- MODULE Spec2Model ----
(***************************************************************************)
(* Verification model of the two cores of the orchestrator:                *)
(*   - the trend safety filter and selector                                *)
(*       (src/orchestrator/trends_integration.py)                          *)
(*   - the JSON repair engine                                              *)
(*       (src/orchestrator/json_repair_engine.py)                          *)
(* Python strings are TLA+ strings; Len, \o and SubSeq are the only        *)
(* primitives used on them.                                                *)
(***************************************************************************)
EXTENDS Integers, Sequences, FiniteSets, TLC

(***************************************************************************)
(* String primitives (Python str / re building blocks)                     *)
(***************************************************************************)
Char(s, i) == SubSeq(s, i, i)

CharsOf(s) == {Char(s, k) : k \in 1..Len(s)}

ascii_uppercase == "ABCDEFGHIJKLMNOPQRSTUVWXYZ"

ascii_lowercase == "abcdefghijklmnopqrstuvwxyz"

ascii_digits == "0123456789"

UpperSet == CharsOf(ascii_uppercase)

LowerSet == CharsOf(ascii_lowercase)

DigitSet == CharsOf(ascii_digits)

\* \w of the re module, on the ASCII alphabet the model draws its inputs from
WordSet == UpperSet \cup LowerSet \cup DigitSet \cup {"_"}

\* \s of the re module, and the characters str.strip() removes
SpaceSet == {" ", "\t", "\n", "\r", "\f"}

Min(a, b) == IF a < b THEN a ELSE b

Max(a, b) == IF a < b THEN b ELSE a

\* s[i:] == sub[...] : sub occurs in s starting at (1-based) position i
MatchAt(s, i, sub) == /\ i >= 1
                      /\ i + Len(sub) - 1 <= Len(s)
                      /\ SubSeq(s, i, i + Len(sub) - 1) = sub

\* sub in s
Contains(s, sub) == \E i \in 1..(Len(s) - Len(sub) + 1) : MatchAt(s, i, sub)

\* any(w in s for w in words), words a tuple of strings
ContainsAny(s, words) == \E k \in 1..Len(words) : Contains(s, words[k])

\* some alternative of (w1|w2|...) matches at position i
AltAt(s, i, words) == \E k \in 1..Len(words) : MatchAt(s, i, words[k])

\* re.search(r'\b(w1|w2|...)\b', s): every alternative starts and ends with a
\* word character, so \b holds where the neighbour is absent or not in \w
WordBounded(s, words) ==
    \E k \in 1..Len(words) : \E i \in 1..(Len(s) - Len(words[k]) + 1) :
        /\ MatchAt(s, i, words[k])
        /\ (i = 1 \/ Char(s, i - 1) \notin WordSet)
        /\ (i + Len(words[k]) > Len(s) \/ Char(s, i + Len(words[k])) \notin WordSet)

LowerChar(c) ==
    IF c \in UpperSet
    THEN Char(ascii_lowercase, CHOOSE k \in 1..26 : Char(ascii_uppercase, k) = c)
    ELSE c

RECURSIVE Join(_, _, _)
\* ''.join(pieces[lo..hi]), halving so that long texts nest shallowly
Join(pieces, lo, hi) ==
    IF lo > hi THEN ""
    ELSE IF lo = hi THEN pieces[lo]
    ELSE Join(pieces, lo, (lo + hi) \div 2) \o Join(pieces, (lo + hi) \div 2 + 1, hi)

RECURSIVE FirstIn(_, _, _)
\* the first position from i >= 1 on holding a character of stops, scanned
\* sixteen characters at a time; a position past the end when there is none
FirstIn(s, i, stops) ==
    IF i > Len(s) THEN i
    ELSE LET hi == Min(i + 15, Len(s)) IN
         IF \A k \in i..hi : Char(s, k) \notin stops THEN FirstIn(s, hi + 1, stops)
         ELSE CHOOSE k \in i..hi :
                 Char(s, k) \in stops /\ \A j \in i..(k - 1) : Char(s, j) \notin stops

RECURSIVE LastIn(_, _, _)
\* the last position up to i holding a character of stops; 0 when there is none
LastIn(s, i, stops) ==
    IF i < 1 THEN 0
    ELSE LET lo == Max(i - 15, 1) IN
         IF \A k \in lo..i : Char(s, k) \notin stops THEN LastIn(s, lo - 1, stops)
         ELSE CHOOSE k \in lo..i :
                 Char(s, k) \in stops /\ \A j \in (k + 1)..i : Char(s, j) \notin stops

\* the characters of s outside the class
Outside(s, class) == CharsOf(s) \ class

\* the length of the longest run of characters of the class from position i
RunLen(s, i, class) == IF i > Len(s) THEN 0 ELSE FirstIn(s, i, Outside(s, class)) - i

\* the length of the longest run of characters of the class ending before i
RunLenBefore(s, i, class) == (i - 1) - LastIn(s, i - 1, Outside(s, class))

RECURSIVE Find(_, _, _)
\* s.find(sub, i - 1) + 1: the first position from i >= 1 on where sub occurs;
\* 0 when s.find returns -1
Find(s, sub, i) ==
    IF i + Len(sub) - 1 > Len(s) THEN 0
    ELSE LET hi == Min(i + 15, Len(s)) IN
         IF \A k \in i..hi : ~MatchAt(s, k, sub) THEN Find(s, sub, hi + 1)
         ELSE CHOOSE k \in i..hi : MatchAt(s, k, sub) /\ \A j \in i..(k - 1) : ~MatchAt(s, j, sub)

\* str.lower()
lower(s) == Join([k \in 1..Len(s) |-> LowerChar(Char(s, k))], 1, Len(s))

RECURSIVE lstrip(_)
lstrip(s) == IF s # "" /\ Char(s, 1) \in SpaceSet THEN lstrip(SubSeq(s, 2, Len(s))) ELSE s

RECURSIVE rstrip(_)
rstrip(s) ==
    IF s # "" /\ Char(s, Len(s)) \in SpaceSet THEN rstrip(SubSeq(s, 1, Len(s) - 1)) ELSE s

\* str.strip()
strip(s) == rstrip(lstrip(s))

KeepInTitle(c) == c \in WordSet \cup SpaceSet \cup {"-"}

RECURSIVE StripSpecials(_)
\* re.sub(r'[^\w\s-]', '', s): drop every character outside the kept class
StripSpecials(s) ==
    IF s = "" THEN ""
    ELSE (IF KeepInTitle(Char(s, 1)) THEN Char(s, 1) ELSE "")
             \o StripSpecials(SubSeq(s, 2, Len(s)))

RECURSIVE CollapseSpaces(_)
\* re.sub(r'\s+', ' ', s): every maximal run of whitespace becomes one space
CollapseSpaces(s) ==
    IF s = "" THEN ""
    ELSE IF Char(s, 1) \in SpaceSet
         THEN " " \o CollapseSpaces(lstrip(s))
         ELSE Char(s, 1) \o CollapseSpaces(SubSeq(s, 2, Len(s)))

\* x[:n] on a tuple
Take(seq, n) == SubSeq(seq, 1, Min(n, Len(seq)))

(***************************************************************************)
(* SecureTrendsProcessor: static data                                      *)
(***************************************************************************)
avoid_keywords ==
    << "war", "violence", "shooting", "murder", "kill", "death", "died", "dead", "suicide",
       "bomb", "explosion", "attack", "terrorism", "terrorist", "assault", "abuse", "rape",
       "kidnap", "torture", "weapon", "gun", "knife", "blood", "stabbing", "beaten",
       "politics", "election", "trump", "biden", "republican", "democrat", "vote", "campaign",
       "protest", "scandal", "controversy", "impeach", "coup", "fraud", "corruption",
       "tragedy", "disaster", "crash", "accident", "fire", "flood", "hurricane", "earthquake",
       "pandemic", "covid", "virus", "disease", "illness", "hospital", "emergency",
       "sexual", "porn", "nude", "naked", "sex", "inappropriate", "offensive", "racist",
       "discrimination", "hate", "extremist", "radical", "banned", "illegal", "drugs",
       "breaking", "urgent", "alert", "warning", "crisis", "investigation", "arrest",
       "charged", "guilty", "sentence", "prison", "jail", "court", "lawsuit", "trial",
       "child", "minor", "kid", "baby", "infant", "teen", "student", "school", "young",
       "victim", "injured", "hurt", "pain", "suffering", "sad", "depression", "anxiety" >>

sensitive_patterns ==
    << <<"kill", "murder", "death", "died", "dead">>,
       <<"rape", "sexual", "abuse">>,
       <<"trump", "biden", "president">>,
       <<"shooting", "bomb", "attack">>,
       <<"child", "kid", "minor", "teen">>,
       <<"crash", "accident", "tragedy">> >>

\* re.search(r'[A-Z][a-z]+ ' + (verbs), s) anchored at position i:
\* one upper-case letter, one or more lower-case letters, a space, a verb
HeadlineAt(s, i, verbs) ==
    /\ i <= Len(s)
    /\ Char(s, i) \in UpperSet
    /\ \E n \in 1..(Len(s) - i) :
          /\ \A j \in (i + 1)..(i + n) : Char(s, j) \in LowerSet
          /\ MatchAt(s, i + n + 1, " ")
          /\ AltAt(s, i + n + 2, verbs)

\* re.search(r'- [A-Z][a-z]+, [A-Z][A-Z]', s); Up and Lo are the classes
\* [A-Z] and [a-z] (both are all letters under re.IGNORECASE)
DatelineIn(s, Up, Lo) ==
    \E i \in 1..Len(s) :
        /\ MatchAt(s, i, "- ")
        /\ i + 2 <= Len(s)
        /\ Char(s, i + 2) \in Up
        /\ \E n \in 1..(Len(s) - i - 2) :
              /\ \A j \in (i + 3)..(i + 2 + n) : Char(s, j) \in Lo
              /\ MatchAt(s, i + 3 + n, ", ")
              /\ i + 6 + n <= Len(s)
              /\ Char(s, i + 5 + n) \in Up
              /\ Char(s, i + 6 + n) \in Up

\* the avoid keywords looked up in the topic as given: no lower-casing, no
\* pattern and no headline test
KeywordsAsGiven(topic) == ContainsAny(topic, avoid_keywords)

_is_sensitive_topic(topic) ==
    LET topic_lower == lower(topic) IN
    \/ ContainsAny(topic_lower, avoid_keywords)
    \/ \E p \in 1..Len(sensitive_patterns) : WordBounded(topic_lower, sensitive_patterns[p])
    \/ HeadlineAt(topic, 1, <<"says", "reports", "confirms", "denies">>)
    \/ /\ DatelineIn(topic, UpperSet, LowerSet)
       /\ ContainsAny(topic_lower, <<"reports", "investigation", "incident">>)

\* re.search(r'^\w+ (says|...)', topic, re.IGNORECASE)
NewsLeadAt(s, verbs) ==
    \E n \in 1..Len(s) :
        /\ \A j \in 1..n : Char(s, j) \in WordSet
        /\ MatchAt(s, n + 1, " ")
        /\ AltAt(s, n + 2, verbs)

\* re.search(r'\d+ (killed|injured|dead|hurt)', topic, re.IGNORECASE)
CountOfHarmIn(s, words) ==
    \E i \in 1..Len(s) :
        /\ Char(s, i) \in DigitSet
        /\ MatchAt(s, i + 1, " ")
        /\ AltAt(s, i + 2, words)

_looks_like_news(topic) ==
    LET t == lower(topic) IN
    \/ NewsLeadAt(t, <<"says", "reports", "confirms", "denies", "announces">>)
    \/ DatelineIn(t, LowerSet, LowerSet)
    \/ ContainsAny(t, <<"investigation", "incident", "reports", "breaking", "urgent">>)
    \/ ContainsAny(t, <<"arrested", "charged", "guilty", "sentenced">>)
    \/ CountOfHarmIn(t, <<"killed", "injured", "dead", "hurt">>)

_clean_trend_title(trend) ==
    lower(strip(CollapseSpaces(StripSpecials(trend))))

\* _get_safe_fallback_trends(): the padding list
safe_fallback_trends ==
    << "Summer outdoor activities", "Healthy cooking recipes", "Home garden tips",
       "Pet care advice", "Travel destinations", "Art and creativity",
       "Music and entertainment", "Sports and fitness", "Technology gadgets",
       "Fashion trends" >>

_get_safe_fallback_trends == safe_fallback_trends

\* a fallback list that was extended with a topic nobody classified
UnvettedTopics == safe_fallback_trends \o <<"School supplies">>

\* safe_topics of _get_fallback_trends()
safe_topics ==
    << "Summer vacation destinations", "Ice cream flavors and recipes",
       "Pet adoption and care", "Music festivals and concerts",
       "Art exhibitions and galleries", "Food trucks and street food",
       "Beach activities and water sports", "Garden parties and outdoor dining",
       "Street art and murals", "Local farmers markets", "Home workout routines",
       "Healthy cooking and nutrition", "DIY crafts and hobbies",
       "Photography tips and techniques", "Book recommendations and reviews",
       "Coffee shop culture", "Hiking trails and nature", "Board games and puzzles",
       "Sustainable living tips", "Mindfulness and meditation" >>

seasonal_trends ==
    << <<"New Year resolutions", "Winter sports", "Cozy home decor", "Fitness goals", "Detox recipes">>,
       <<"Valentine's Day gifts", "Winter fashion", "Indoor activities", "Heart-healthy recipes", "Love quotes">>,
       <<"Spring cleaning", "Garden planning", "Easter decorations", "Spring fashion", "Outdoor activities">>,
       <<"Earth Day activities", "Spring flowers", "Outdoor fitness", "Fresh recipes", "Travel planning">>,
       <<"Mother's Day gifts", "Graduation parties", "Summer planning", "Outdoor weddings", "BBQ recipes">>,
       <<"Father's Day gifts", "Summer vacations", "Beach activities", "Outdoor sports", "Pool parties">>,
       <<"Summer festivals", "Independence Day", "Beach fashion", "Outdoor concerts", "Summer recipes">>,
       <<"Back to school", "Summer activities", "Vacation photos", "School supplies", "Family time">>,
       <<"Fall fashion", "Autumn decorations", "School activities", "Harvest festivals", "Comfort food">>,
       <<"Halloween costumes", "Autumn leaves", "Pumpkin recipes", "Fall activities", "Cozy sweaters">>,
       <<"Thanksgiving recipes", "Holiday planning", "Black Friday deals", "Gratitude activities", "Family gatherings">>,
       <<"Christmas gifts", "Holiday decorations", "Winter activities", "Holiday recipes", "Year-end reflection">> >>

evergreen_trends ==
    << "Healthy lifestyle tips", "Creative art projects", "Home improvement ideas",
       "Pet care tips", "Cooking techniques", "Travel destinations", "Fitness routines",
       "Photography tips", "Music discoveries", "Book recommendations" >>

\* _get_fallback_story()
_get_fallback_story ==
    [ original_trend |-> "Summer celebration",
      clean_trend    |-> "summer celebration",
      spiced_story   |-> "A vibrant summer celebration with colorful decorations and joyful people dancing under golden hour lighting",
      modifier_used  |-> "vibrant" ]

Range(seq) == {seq[k] : k \in 1..Len(seq)}

(***************************************************************************)
(* Inputs: the trend strings a live source may hand back.  Each one is     *)
(* there for a case of the filter.                                         *)
(***************************************************************************)
SafeTrend == "Sustainable coffee brewing tips"

PaddedTrend == "  Pet care tips  "

\* safe as given, "gun show" once _clean_trend_title removed the dot
CleansUnsafeTrend == "G.un show"

\* The grave accent (U+0060), which a string of this language cannot hold: the
\* model writes it as the circumflex.  Both are punctuation outside \w and
\* \s, so every other pattern treats them alike, and no input of the model
\* holds a circumflex of its own.
Backtick == "^"

\* unsafe by substring: "war" in "award"
UnsafeTrend == "Local bakery wins award"

\* unsafe only by the word-boundary patterns ("president" is no avoid keyword)
PatternTrend == "The president speaks"

\* not sensitive, dropped as news by _looks_like_news
NewsTrend == "City announces parade"

\* the trends the sources of the service hand back
LiveTrends == {SafeTrend, CleansUnsafeTrend, UnsafeTrend, PatternTrend}

\* further strings the filter is tabulated on
FilterTrends == {PaddedTrend, NewsTrend}

\* the trends create_spiced_story is called on directly
StoryTrends == {SafeTrend, "Pet care tips", CleansUnsafeTrend, UnsafeTrend}

StaticTrends ==
    Range(safe_fallback_trends) \cup Range(safe_topics) \cup Range(evergreen_trends)
        \cup UNION {Range(seasonal_trends[m]) : m \in 1..12}
        \cup {_get_fallback_story.original_trend}

\* the strings _is_sensitive_topic and extract_hook_keywords are called on
\* directly: avoid keywords in other letter cases and inside longer words,
\* strings only the patterns or the headline test flag, a dateline without a
\* report word, and a string that is unsafe only once cleaned
ProbeTrends ==
    { "WAR", "sKILLs day", "Award season skills", "Skilled bakers award", "Ki.ll time",
      "The PRESIDENT speaks", "Mayor says hello", "Fair - Austin, TX",
      "Fair - Austin, TX reports", "Sustainable coffee brewing", "a b" }

\* a trend of 151 characters, and its first 150
LongTrend ==
    "Weekend farmers market finds and easy seasonal recipes for busy families who love fresh local produce and simple homemade meals every single day of the"

FullLengthTrend == SubSeq(LongTrend, 1, 150)

\* the candidates _filter_and_validate_trends is called on directly: at and
\* past the bounds on the length, with special characters, news-like,
\* sensitive, padded with blanks, and plain
FilterProbes ==
    { "ab", "  ab  ", "abc", LongTrend, FullLengthTrend, "Tech <b>deals</b>",
      "Best " \o Backtick \o "retro" \o Backtick \o " games", "Yoga ~ pilates", NewsTrend, UnsafeTrend, PaddedTrend,
      "Retro console games" }

RawTopics == LiveTrends \cup FilterTrends \cup StoryTrends \cup StaticTrends \cup ProbeTrends

GivenTopics == RawTopics \cup {strip(t) : t \in RawTopics}

\* the filter's candidates, as given and stripped: they are classified but
\* never cleaned
FilterGiven == FilterProbes \cup {strip(t) : t \in FilterProbes}

\* Tables of the string functions over the strings the model passes to them:
\* each entry is computed by the function, once.
StripTable == [t \in RawTopics \cup FilterProbes |-> strip(t)]

CleanTable == [t \in GivenTopics |-> _clean_trend_title(t)]

Topics == GivenTopics \cup {CleanTable[t] : t \in GivenTopics} \cup FilterGiven

SensitiveTable == [t \in Topics |-> _is_sensitive_topic(t)]

NewsTable == [t \in GivenTopics \cup FilterGiven |-> _looks_like_news(t)]

\* a classifier that lets every topic through
NeverSensitive(t) == FALSE

IsSensitive(t) == SensitiveTable[t]

(***************************************************************************)
(* _filter_and_validate_trends                                             *)
(***************************************************************************)
MaxTrendLen == 150

MinTrendLen == 3

FilterCap == 15

PadBelow == 3

PadCount == 5

ReturnCap == 10

\* a pattern that knows the angle brackets only
AngleBracketsOnly == {"<", ">"}

\* re.search(r'[<>{}[\]\\|`~]', s)
SpecialChars == {"<", ">", "{", "}", "[", "]", "\\", "|", Backtick, "~"}

HasSpecialChars(s) == \E k \in 1..Len(s) : Char(s, k) \in SpecialChars

\* the body of the loop: TRUE when the trend is appended (as trend.strip())
KeepsTrend(trend) ==
    LET trend_clean == StripTable[trend] IN
    /\ trend # ""
    /\ Len(trend_clean) >= MinTrendLen
    /\ ~IsSensitive(trend_clean)
    /\ Len(trend_clean) <= MaxTrendLen
    /\ ~HasSpecialChars(trend_clean)
    /\ ~NewsTable[trend_clean]

RECURSIVE FilterLoop(_, _, _)
\* for trend in trends: ... append; break at FilterCap entries
FilterLoop(trends, k, filtered_trends) ==
    IF k > Len(trends) THEN filtered_trends
    ELSE IF KeepsTrend(trends[k])
         THEN LET next == Append(filtered_trends, StripTable[trends[k]]) IN
              IF Len(next) >= FilterCap THEN next ELSE FilterLoop(trends, k + 1, next)
         ELSE FilterLoop(trends, k + 1, filtered_trends)

\* the filter without the padding
UnpaddedFilter(trends) == Take(FilterLoop(trends, 1, <<>>), ReturnCap)

_filter_and_validate_trends(trends) ==
    LET filtered_trends == FilterLoop(trends, 1, <<>>)
        padded == IF Len(filtered_trends) < PadBelow
                  THEN filtered_trends \o Take(_get_safe_fallback_trends, PadCount)
                  ELSE filtered_trends
    IN  Take(padded, ReturnCap)

(***************************************************************************)
(* extract_hook_keywords                                                   *)
(***************************************************************************)
stop_words ==
    { "the", "a", "an", "and", "or", "but", "in", "on", "at", "to", "for", "of", "with", "by",
      "from", "up", "about", "into", "through", "during", "before", "after", "above", "below",
      "is", "are", "was", "were", "be", "been", "being", "have", "has", "had", "do", "does", "did",
      "will", "would", "could", "should", "may", "might", "must", "can", "this", "that", "these",
      "those",
      "trump", "biden", "president", "rape", "kill", "murder", "death", "died", "dead", "child",
      "kid" }

default_keywords == <<"trending", "popular", "viral">>

empty_keywords == <<"trending", "viral", "popular">>

MaxKeywords == 3

MinWordLen == 2

RECURSIVE WordRun(_, _)
\* the length of the maximal run of \w characters of s starting at position i
WordRun(s, i) == IF i <= Len(s) /\ Char(s, i) \in WordSet THEN 1 + WordRun(s, i + 1) ELSE 0

RECURSIVE FindWords(_, _)
\* re.findall(r'\b\w+\b', s) from position i on
FindWords(s, i) ==
    IF i > Len(s) THEN <<>>
    ELSE LET n == WordRun(s, i) IN
         IF n = 0 THEN FindWords(s, i + 1)
         ELSE <<SubSeq(s, i, i + n - 1)>> \o FindWords(s, i + n)

RECURSIVE KeepKeywords(_, _)
\* the keyword loop: longer than two characters, no stop word, no avoid keyword inside
KeepKeywords(words, k) ==
    IF k > Len(words) THEN <<>>
    ELSE LET word == words[k]
             rest == KeepKeywords(words, k + 1)
         IN  IF /\ Len(word) > MinWordLen
                /\ word \notin stop_words
                /\ ~ContainsAny(word, avoid_keywords)
             THEN <<word>> \o rest
             ELSE rest

\* the first words of the cleaned trend, with no check and no filter
UncheckedKeywords(trend) ==
    Take(FindWords(lower(_clean_trend_title(trend)), 1), MaxKeywords)

\* every keyword the loop keeps: no cap on their number, no default
UncappedKeywords(trend) ==
    KeepKeywords(FindWords(lower(_clean_trend_title(trend)), 1), 1)

extract_hook_keywords(trend) ==
    IF _is_sensitive_topic(trend) THEN default_keywords
    ELSE LET clean_trend == _clean_trend_title(trend) IN
         IF _is_sensitive_topic(clean_trend) THEN default_keywords
         ELSE LET keywords == KeepKeywords(FindWords(lower(clean_trend), 1), 1) IN
              IF keywords = <<>> THEN empty_keywords ELSE Take(keywords, MaxKeywords)

HookTable == [t \in GivenTopics |-> extract_hook_keywords(t)]

(***************************************************************************)
(* create_spiced_story                                                     *)
(***************************************************************************)
happy_modifiers ==
    << "vibrant", "colorful", "joyful", "exciting", "magical", "whimsical",
       "fantastic", "amazing", "spectacular", "delightful", "cheerful", "bright" >>

\* each template as the pieces str.format joins; the fields are {modifier}, {topic}
story_templates ==
    << <<"A ", "{modifier}", " scene featuring ", "{topic}", " with sparkling effects and rainbow colors">>,
       <<"An enchanting ", "{topic}", " adventure in a ", "{modifier}", " wonderland setting">>,
       <<"A festive celebration of ", "{topic}", " with ", "{modifier}", " decorations everywhere">>,
       <<"A ", "{modifier}", " carnival atmosphere celebrating ", "{topic}", " with confetti and lights">>,
       <<"An uplifting ", "{topic}", " scene in a ", "{modifier}", " fairy tale environment">> >>

spice_elements ==
    << "with golden hour lighting", "surrounded by floating balloons",
       "with gentle sparkles in the air", "in a dreamy pastel color palette",
       "with soft bokeh effects", "featuring happy people laughing",
       "with beautiful flowers blooming", "under a clear blue sky",
       "with warm sunset colors", "featuring vibrant energy",
       "with magical atmosphere", "in a picture-perfect setting" >>

RECURSIVE Format(_, _, _, _)
\* template.format(topic=..., modifier=...), from piece k on
Format(template, k, topic, modifier) ==
    IF k > Len(template) THEN ""
    ELSE (CASE template[k] = "{topic}" -> topic
            [] template[k] = "{modifier}" -> modifier
            [] OTHER -> template[k])
         \o Format(template, k + 1, topic, modifier)

\* the outcomes of the three random.choice calls the model draws: the first
\* MaxChoice entries of each list
MaxChoice == 1

\* the r-th draw picks entry r of each list
Choices ==
    { [ modifier |-> Min(r, Len(happy_modifiers)),
        template |-> Min(r, Len(story_templates)),
        spice    |-> Min(r, Len(spice_elements)) ] : r \in 1..MaxChoice }

\* the draws of a direct call of create_spiced_story: those of Choices, with
\* any of the spice clauses
StoryChoices ==
    { [rnd EXCEPT !.spice = e] : rnd \in Choices, e \in 1..Len(spice_elements) }

\* budgets of one candidate fewer, and of one more, than max_attempts
ShortBudget == 3 - 1

LongBudget == 3 + 1

max_attempts == 3

\* the story built from an accepted trend; rnd holds the three random choices
RenderStory(selected_trend, clean_trend, rnd) ==
    LET modifier == happy_modifiers[rnd.modifier]
        spiced_story == Format(story_templates[rnd.template], 1, clean_trend, modifier)
        final_story == spiced_story \o " " \o spice_elements[rnd.spice]
    IN  [ original_trend |-> selected_trend,
          clean_trend    |-> clean_trend,
          spiced_story   |-> final_story,
          modifier_used  |-> modifier ]

RECURSIVE StoryLoopRawOnly(_, _, _, _)
\* the loop without its second check, of the cleaned title (lines 591-599)
StoryLoopRawOnly(trends, k, attempts, rnd) ==
    IF k > Len(trends)
    THEN [story |-> _get_fallback_story, attempts |-> attempts, accepted |-> 0]
    ELSE LET attempt_trend == trends[k]
             n == attempts + 1
         IN  IF IsSensitive(attempt_trend)
             THEN IF n >= max_attempts
                  THEN [story |-> _get_fallback_story, attempts |-> n, accepted |-> 0]
                  ELSE StoryLoopRawOnly(trends, k + 1, n, rnd)
             ELSE [story |-> RenderStory(attempt_trend, CleanTable[attempt_trend], rnd),
                   attempts |-> n, accepted |-> k]

RECURSIVE StoryLoop(_, _, _, _)
\* for attempt_trend in trends, entered with `attempts` candidates examined before
\* trends[k]; yields the story and the number of candidates examined
StoryLoop(trends, k, attempts, rnd) ==
    IF k > Len(trends)
    THEN [story |-> _get_fallback_story, attempts |-> attempts, accepted |-> 0]
    ELSE LET attempt_trend == trends[k]
             n == attempts + 1
             clean_trend == CleanTable[attempt_trend]
             skip == IF n >= max_attempts
                     THEN [story |-> _get_fallback_story, attempts |-> n, accepted |-> 0]
                     ELSE StoryLoop(trends, k + 1, n, rnd)
         IN  IF IsSensitive(attempt_trend) THEN skip
             ELSE IF IsSensitive(clean_trend) THEN skip
             ELSE [story |-> RenderStory(attempt_trend, clean_trend, rnd),
                   attempts |-> n, accepted |-> k]

\* create_spiced_story with what the run examined: attempts is the number of
\* candidates examined, accepted the index of the accepted one (0: fallback)
CreateStoryRun(trends, rnd) == StoryLoop(trends, 1, 0, rnd)

create_spiced_story(trends, rnd) == CreateStoryRun(trends, rnd).story

\* the spiced_story texts a direct call can return, and what
\* _is_sensitive_topic says of each
StoryTexts ==
    { RenderStory(t, CleanTable[t], rnd).spiced_story : t \in StoryTrends, rnd \in StoryChoices }
        \cup {_get_fallback_story.spiced_story}

StoryTextSensitive == [t \in StoryTexts |-> _is_sensitive_topic(t)]

(***************************************************************************)
(* The service: get_trending_spiced_story and fetch_trends_multi_source     *)
(***************************************************************************)
\* config.cache_duration, config.min_request_interval (seconds)
cache_duration == 900

min_request_interval == 60

max_safety_attempts == 3

max_story_attempts == 3

\* Bounds of the model
StartTime == 1000

TickStep == 450

MaxTicks == 2

MaxBatch == 2

MaxSamples == 1

MaxStoryList == 4

MaxTime == StartTime + MaxTicks * TickStep

\* datetime.now().month: a month whose topics are all safe, and one with
\* sensitive topics ("Back to school")
Months == {7, 8}

\* the requests that may be in flight together on the event loop
Callers == {"r1", "r2"}

\* Optional values: None, or the value wrapped
None == <<>>

Some(v) == <<v>>

sources ==
    << "_fetch_from_pytrends", "_fetch_from_rss_feed", "_fetch_from_reddit_trending",
       "_fetch_from_twitter_trends_alternative", "_get_curated_trending_topics" >>

Batches == UNION {[1..n -> LiveTrends] : n \in 0..MaxBatch}

\* random.sample(population, k): the model draws the k entries that follow
\* offset off, cyclically
Window(population, off, k) ==
    [j \in 1..k |-> population[((off + j - 1) % Len(population)) + 1]]

Samples(population, k) == {Window(population, off, k) : off \in 0..(MaxSamples - 1)}

RedditTitleCap == 100

SourceTop == 10

\* _get_curated_trending_topics in month `month`
_get_curated_trending_topics(month) ==
    LET all_trends == seasonal_trends[month] \o evergreen_trends
    IN  Samples(all_trends, Min(SourceTop, Len(all_trends)))

\* a fallback that selects nothing
NoFallback == {<<>>}

\* _get_fallback_trends(): the lists it may select
_get_fallback_trends == Samples(safe_topics, Min(SourceTop, Len(safe_topics)))

Raised == [kind |-> "raised", trends |-> <<>>]

Returned(trends) == [kind |-> "returned", trends |-> trends]

\* What awaiting source i may end with: an exception (each source re-raises
\* what its body raises) or the list it returns.
SourceOutcomes ==
    [i \in 1..Len(sources) |->
        CASE i = 1 -> {Raised} \cup {Returned(b) : b \in Batches}
          [] i = 2 -> {Raised} \cup
                      {Returned(b) : b \in {c \in Batches :
                                               \A k \in 1..Len(c) : c[k] = StripTable[c[k]]}}
          [] i = 3 -> {Raised} \cup
                      {Returned(b) : b \in {c \in Batches :
                                               \A k \in 1..Len(c) : Len(c[k]) < RedditTitleCap}}
          [] i = 4 -> {Raised, Returned(<<>>)}
          [] i = 5 -> {Raised} \cup
                      {Returned(b) : b \in UNION {_get_curated_trending_topics(m) : m \in Months}}]

RECURSIVE SafetyLoop(_, _, _, _)
\* the FINAL SAFETY CHECK loop over filtered_trends, from entry k on
SafetyLoop(filtered_trends, k, final_safe_trends, safety_attempts) ==
    IF k > Len(filtered_trends)
    THEN [final_safe_trends |-> final_safe_trends, safety_attempts |-> safety_attempts]
    ELSE IF IsSensitive(filtered_trends[k])
         THEN IF safety_attempts + 1 >= max_safety_attempts
              THEN [final_safe_trends |-> final_safe_trends,
                    safety_attempts |-> safety_attempts + 1]
              ELSE SafetyLoop(filtered_trends, k + 1, final_safe_trends, safety_attempts + 1)
         ELSE SafetyLoop(filtered_trends, k + 1,
                         Append(final_safe_trends, filtered_trends[k]), safety_attempts)

\* lines 98-117: what one source's non-empty batch is reduced to
FinalSafeTrends(trends) ==
    SafetyLoop(_filter_and_validate_trends(trends), 1, <<>>, 0).final_safe_trends

\* every candidate of a non-empty batch is classified sensitive
AllUnsafe(trends) == trends # <<>> /\ \A k \in 1..Len(trends) : IsSensitive(trends[k])

\* a pass in which no batch is ever taken: the source is abandoned whatever
\* it returned
AbandonedPass(o) ==
    [ outcome |-> IF o.kind = "raised" THEN "raised"
                  ELSE IF Len(o.trends) = 0 THEN "empty" ELSE "unsafe",
      final_safe_trends |-> <<>>,
      all_unsafe |-> AllUnsafe(o.trends) ]

\* lines 94-133, one pass of the loop over the sources: what the outcome o of
\* the awaited source comes to.  outcome is "raised" (the except branch),
\* "empty" (nothing returned), "unsafe" (a batch, no safe trend left of it) or
\* "safe" (final_safe_trends is cached and returned)
SourcePass(o) ==
    LET has_batch == o.kind = "returned" /\ Len(o.trends) > 0
        final_safe_trends == IF has_batch THEN FinalSafeTrends(o.trends) ELSE <<>>
    IN  [ outcome |-> IF o.kind = "raised" THEN "raised"
                      ELSE IF ~has_batch THEN "empty"
                      ELSE IF Len(final_safe_trends) >= 1 THEN "safe" ELSE "unsafe",
          final_safe_trends |-> final_safe_trends,
          all_unsafe |-> AllUnsafe(o.trends) ]

\* the passes source i can come to, over all its outcomes
SourcePasses == [i \in 1..Len(sources) |-> {SourcePass(o) : o \in SourceOutcomes[i]}]

(***************************************************************************)
(* json.loads and ast.literal_eval, on the texts the model draws.          *)
(* A parsed value is [t |-> tag, v |-> payload]: "none" (null / None),     *)
(* "bool", "num" (its text), "str", "list" (a tuple of values), "dict" (a  *)
(* function from its keys to values).                                      *)
(***************************************************************************)
PyNone == [t |-> "none", v |-> ""]

PyBool(b) == [t |-> "bool", v |-> b]

PyNum(text) == [t |-> "num", v |-> text]

PyStr(text) == [t |-> "str", v |-> text]

PyList(items) == [t |-> "list", v |-> items]

PyDict(fields) == [t |-> "dict", v |-> fields]

EmptyDict == [k \in {} |-> PyNone]

\* a parse that raised
ParseError == [ok |-> FALSE, v |-> PyNone, next |-> 0]

Parsed(v, next) == [ok |-> TRUE, v |-> v, next |-> next]

JsonSpace == {" ", "\t", "\n", "\r"}

\* the first position from i on that holds no whitespace
SkipWs(s, i) == i + RunLen(s, i, JsonSpace)

\* the escapes the model's alphabet cannot express: \b \uXXXX, and in Python
\* \a \v \x \N \U and the octal ones
Inexpressible == {"a", "b", "v", "x", "u", "N", "U"} \cup DigitSet

\* what a backslash and the character c after it stand for ("" when the
\* literal is rejected)
Unescape(c, py) ==
    CASE c = "\"" -> "\""
      [] c = "\\" -> "\\"
      [] c = "n" -> "\n"
      [] c = "t" -> "\t"
      [] c = "r" -> "\r"
      [] c = "f" -> "\f"
      [] c = "/" /\ ~py -> "/"
      [] c = "'" /\ py -> "'"
      [] OTHER -> IF py /\ c \notin Inexpressible /\ c # "\n" THEN "\\" \o c ELSE ""

\* characters that may not stand raw inside a string literal
RawForbidden(py) == IF py THEN {"\n", "\r"} ELSE {"\n", "\r", "\t", "\f"}

\* the number of backslashes right before position k
Backslashes(s, k) == RunLenBefore(s, k, {"\\"})

\* position k holds the quote q and no backslash escapes it
Closes(s, k, q) == Char(s, k) = q /\ Backslashes(s, k) % 2 = 0

RECURSIVE CloseQuote(_, _, _)
\* the position of the quote closing a literal whose body starts at i; 0 if none
CloseQuote(s, i, q) ==
    IF i > Len(s) THEN 0
    ELSE LET hi == Min(i + 15, Len(s)) IN
         IF \A k \in i..hi : ~Closes(s, k, q) THEN CloseQuote(s, hi + 1, q)
         ELSE CHOOSE k \in i..hi : Closes(s, k, q) /\ \A j \in i..(k - 1) : ~Closes(s, j, q)

\* what position k of a literal's body contributes to its value
BodyPiece(s, k, py) ==
    IF Backslashes(s, k) % 2 = 1 THEN ""
    ELSE IF Char(s, k) = "\\" THEN Unescape(Char(s, k + 1), py)
    ELSE Char(s, k)

\* position k of a literal's body is accepted
BodyOk(s, k, py) ==
    IF Backslashes(s, k) % 2 = 1 THEN TRUE
    ELSE IF Char(s, k) = "\\" THEN Unescape(Char(s, k + 1), py) # ""
    ELSE Char(s, k) \notin RawForbidden(py)

\* the literal whose body runs from i to the closing quote at e (0: none)
LiteralUpTo(s, i, e, py) ==
    IF e = 0 \/ \E k \in i..(e - 1) : ~BodyOk(s, k, py) THEN ParseError
    ELSE Parsed(PyStr(Join([k \in 1..(e - i) |-> BodyPiece(s, i + k - 1, py)], 1, e - i)),
                e + 1)

\* the string literal opened by the quote q at position i - 1
ParseChars(s, i, q, py) == LiteralUpTo(s, i, CloseQuote(s, i, q), py)

\* -?(0|[1-9][0-9]*)(\.[0-9]+)? at position i
ParseNumber(s, i) ==
    LET j == IF MatchAt(s, i, "-") THEN i + 1 ELSE i
        n == RunLen(s, j, DigitSet)
        k == j + n
        m == IF MatchAt(s, k, ".") THEN RunLen(s, k + 1, DigitSet) ELSE 0
        e == IF m > 0 THEN k + 1 + m ELSE k
    IN  IF n = 0 \/ (n > 1 /\ Char(s, j) = "0") \/ (MatchAt(s, k, ".") /\ m = 0)
        THEN ParseError
        ELSE Parsed(PyNum(SubSeq(s, i, e - 1)), e)

RECURSIVE ParseValue(_, _, _)
RECURSIVE ParseElements(_, _, _, _)
RECURSIVE AfterElement(_, _, _, _)
RECURSIVE ParseMembers(_, _, _, _)
RECURSIVE AfterKey(_, _, _, _)
RECURSIVE AfterMember(_, _, _, _, _)

\* the list once its element e is parsed: a comma and more, or the bracket
AfterElement(s, e, acc, py) ==
    IF ~e.ok THEN ParseError
    ELSE LET k == SkipWs(s, e.next) IN
         IF MatchAt(s, k, ",") THEN ParseElements(s, k + 1, Append(acc, e.v), py)
         ELSE IF MatchAt(s, k, "]") THEN Parsed(PyList(Append(acc, e.v)), k + 1)
         ELSE ParseError

\* the elements of a list, positioned after '[' or after a comma (which only
\* the Python syntax lets the bracket follow)
ParseElements(s, i, acc, py) ==
    LET j == SkipWs(s, i) IN
    IF MatchAt(s, j, "]") /\ (acc = <<>> \/ py) THEN Parsed(PyList(acc), j + 1)
    ELSE AfterElement(s, ParseValue(s, j, py), acc, py)

\* the object once the member key : e is parsed
AfterMember(s, key, e, acc, py) ==
    IF ~e.ok THEN ParseError
    ELSE LET k == SkipWs(s, e.next) IN
         IF MatchAt(s, k, ",") THEN ParseMembers(s, k + 1, (key :> e.v) @@ acc, py)
         ELSE IF MatchAt(s, k, "}") THEN Parsed(PyDict((key :> e.v) @@ acc), k + 1)
         ELSE ParseError

\* the object once a member's key is parsed: the colon and the value
AfterKey(s, key, acc, py) ==
    IF ~key.ok THEN ParseError
    ELSE LET c == SkipWs(s, key.next) IN
         IF ~MatchAt(s, c, ":") THEN ParseError
         ELSE AfterMember(s, key.v.v, ParseValue(s, SkipWs(s, c + 1), py), acc, py)

\* the members of an object, positioned after '{' or after a comma
ParseMembers(s, i, acc, py) ==
    LET j == SkipWs(s, i) IN
    IF MatchAt(s, j, "}") /\ (DOMAIN acc = {} \/ py) THEN Parsed(PyDict(acc), j + 1)
    ELSE IF MatchAt(s, j, "\"") THEN AfterKey(s, ParseChars(s, j + 1, "\"", py), acc, py)
    ELSE IF py /\ MatchAt(s, j, "'") THEN AfterKey(s, ParseChars(s, j + 1, "'", py), acc, py)
    ELSE ParseError

\* one value at position i; py: the Python literal syntax instead of JSON
ParseValue(s, i, py) ==
    IF i > Len(s) THEN ParseError
    ELSE LET c == Char(s, i) IN
         CASE c = "{" -> ParseMembers(s, i + 1, EmptyDict, py)
           [] c = "[" -> ParseElements(s, i + 1, <<>>, py)
           [] c = "\"" -> ParseChars(s, i + 1, "\"", py)
           [] c = "'" /\ py -> ParseChars(s, i + 1, "'", py)
           [] c = "-" \/ c \in DigitSet -> ParseNumber(s, i)
           [] ~py /\ MatchAt(s, i, "null") -> Parsed(PyNone, i + 4)
           [] ~py /\ MatchAt(s, i, "true") -> Parsed(PyBool(TRUE), i + 4)
           [] ~py /\ MatchAt(s, i, "false") -> Parsed(PyBool(FALSE), i + 5)
           [] py /\ MatchAt(s, i, "None") -> Parsed(PyNone, i + 4)
           [] py /\ MatchAt(s, i, "True") -> Parsed(PyBool(TRUE), i + 4)
           [] py /\ MatchAt(s, i, "False") -> Parsed(PyBool(FALSE), i + 5)
           [] OTHER -> ParseError

\* the value e, when only whitespace follows it
WholeText(s, e) == IF e.ok /\ SkipWs(s, e.next) > Len(s) THEN e ELSE ParseError

\* a whole text holding one value and whitespace around it
ParseText(s, py) == WholeText(s, ParseValue(s, SkipWs(s, 1), py))

\* json.loads(s): ok is FALSE when it raises
json_loads(s) == ParseText(s, FALSE)

\* ast.literal_eval(s): ok is FALSE when it raises
literal_eval(s) == ParseText(s, TRUE)

(***************************************************************************)
(* str and re building blocks of the repair strategies                     *)
(***************************************************************************)
\* s.rfind(c) + 1 for a single character c; 0 when s.rfind returns -1
RFind(s, c) == LastIn(s, Len(s), {c})

RECURSIVE Replace(_, _, _)
\* s.replace(old, new), old not empty
Replace(s, old, new) ==
    LET p == Find(s, old, 1) IN
    IF p = 0 THEN s
    ELSE SubSeq(s, 1, p - 1) \o new \o Replace(SubSeq(s, p + Len(old), Len(s)), old, new)

RECURSIVE Split(_, _)
\* s.split(sep)
Split(s, sep) ==
    LET p == Find(s, sep, 1) IN
    IF p = 0 THEN <<s>>
    ELSE <<SubSeq(s, 1, p - 1)>> \o Split(SubSeq(s, p + Len(sep), Len(s)), sep)

RECURSIVE LStripChars(_, _)
LStripChars(s, chars) ==
    IF s # "" /\ Char(s, 1) \in chars THEN LStripChars(SubSeq(s, 2, Len(s)), chars) ELSE s

RECURSIVE RStripChars(_, _)
RStripChars(s, chars) ==
    IF s # "" /\ Char(s, Len(s)) \in chars
    THEN RStripChars(SubSeq(s, 1, Len(s) - 1), chars) ELSE s

\* s.strip(chars)
StripChars(s, chars) == RStripChars(LStripChars(s, chars), chars)

\* the position after \s* matched greedily at i
SkipSpaces(s, i) == i + RunLen(s, i, SpaceSet)

\* the first position from i on holding a character of stops; Len(s) + 1 if none
NextStop(s, i, stops) == IF i > Len(s) THEN Len(s) + 1 ELSE FirstIn(s, i, stops)

(***************************************************************************)
(* _apply_regex_fixes                                                      *)
(***************************************************************************)
Closers == {"}", "]"}

\* re.sub(r',(\s*[}\]])', r'\1', s): every comma followed by \s*[}\]] goes
Fix1Piece(s, i) ==
    IF Char(s, i) = "," /\ SkipSpaces(s, i + 1) <= Len(s)
                        /\ Char(s, SkipSpaces(s, i + 1)) \in Closers
    THEN "" ELSE Char(s, i)

Fix1(s) == Join([i \in 1..Len(s) |-> Fix1Piece(s, i)], 1, Len(s))

\* (?=[^,}\]]*") at position i
QuoteAhead(s, i) ==
    LET p == NextStop(s, i, {",", "}", "]", "\""}) IN p <= Len(s) /\ Char(s, p) = "\""

\* re.sub(r'(?<!\\)"(?=[^,}\]]*")', '\\"', s)
Fix2Piece(s, i) ==
    IF Char(s, i) = "\"" /\ ~MatchAt(s, i - 1, "\\") /\ QuoteAhead(s, i + 1)
    THEN "\\\"" ELSE Char(s, i)

Fix2(s) == Join([i \in 1..Len(s) |-> Fix2Piece(s, i)], 1, Len(s))

\* lines 342-343 as Python reads them: the first line replaces '"' by '"'; on
\* the second the three quotes open a string literal that closes at the next
\* three quotes, so one replace call is made, of this text by a single quote
Fix3(s) == Replace(s, ", \"'\").replace(", "'")

\* the last position before i that holds no whitespace; 0 when there is none
BeforeSpaces(s, i) == LastIn(s, i - 1, Outside(s, SpaceSet))

\* re.sub(r'(\w+)\s*:', r'"\1":', s): a match is a maximal run of \w, the
\* whitespace after it and the colon; its first position carries the
\* replacement and the others nothing
Fix4Piece(s, i) ==
    LET c == Char(s, i)
        n == RunLen(s, i, WordSet)
        b == BeforeSpaces(s, i)
    IN  IF c \in WordSet
        THEN IF MatchAt(s, SkipSpaces(s, i + n), ":")
             THEN IF RunLenBefore(s, i, WordSet) = 0
                  THEN "\"" \o SubSeq(s, i, i + n - 1) \o "\":" ELSE ""
             ELSE c
        ELSE IF c \in SpaceSet
        THEN IF b >= 1 /\ Char(s, b) \in WordSet /\ MatchAt(s, SkipSpaces(s, i), ":")
             THEN "" ELSE c
        ELSE IF c = ":" /\ b >= 1 /\ Char(s, b) \in WordSet THEN "" ELSE c

Fix4(s) == Join([i \in 1..Len(s) |-> Fix4Piece(s, i)], 1, Len(s))

\* re.sub(r"'([^']*)'", r'"\1"', s): the single quotes pair up from the left,
\* a last one without partner stays
Fix5Piece(s, i) ==
    IF Char(s, i) = "'" /\ ~(/\ Cardinality({k \in 1..Len(s) : Char(s, k) = "'"}) % 2 = 1
                             /\ i = LastIn(s, Len(s), {"'"}))
    THEN "\"" ELSE Char(s, i)

Fix5(s) == Join([i \in 1..Len(s) |-> Fix5Piece(s, i)], 1, Len(s))

\* ''.join(char for char in s if ord(char) >= 32 or char in '\n\t')
Fix6(s) ==
    Join([i \in 1..Len(s) |-> IF Char(s, i) \in {"\r", "\f"} THEN "" ELSE Char(s, i)],
         1, Len(s))

\* what \s*([^,\]]+) captures on a run of [^,\]] characters
ArrayGroup(run) == IF lstrip(run) # "" THEN lstrip(run) ELSE Char(run, Len(run))

RECURSIVE Fix7(_, _)
\* re.sub(r'\[\s*([^,\]]+)\s*,\s*([^,\]]+)\s*\]', r'["\1", "\2"]', s) from i on
Fix7(s, i) ==
    LET o == Find(s, "[", i)
        p == NextStop(s, o + 1, {",", "]"})
        q == NextStop(s, p + 1, {",", "]"})
    IN  IF o = 0 THEN SubSeq(s, i, Len(s))
        ELSE IF p > o + 1 /\ MatchAt(s, p, ",") /\ q > p + 1 /\ MatchAt(s, q, "]")
             THEN SubSeq(s, i, o - 1) \o "[\"" \o ArrayGroup(SubSeq(s, o + 1, p - 1))
                  \o "\", \"" \o ArrayGroup(SubSeq(s, p + 1, q - 1)) \o "\"]"
                  \o Fix7(s, q + 1)
             ELSE SubSeq(s, i, o) \o Fix7(s, o + 1)

_apply_regex_fixes(content) == Fix7(Fix6(Fix5(Fix4(Fix3(Fix2(Fix1(content)))))), 1)

(***************************************************************************)
(* The seven repair strategies.  A strategy returns None or Some(record);  *)
(* an exception inside strategies 1 to 6 is caught by the strategy or by   *)
(* the try around its call and reads as None.                              *)
(***************************************************************************)
required_fields == <<"product", "audience", "tone", "description", "features", "scene">>

_validate_structure(data) ==
    /\ data.t = "dict"
    /\ \A k \in 1..Len(required_fields) : required_fields[k] \in DOMAIN data.v

\* isinstance(response_obj, dict) and "response" in response_obj
IsWrapper(parsed) == parsed.ok /\ parsed.v.t = "dict" /\ "response" \in DOMAIN parsed.v.v

\* the content the strategies work on: the wrapper's "response" value (of
\* any type), else the response text itself
Unwrapped(response, response_obj) ==
    IF IsWrapper(response_obj) THEN response_obj.v.v["response"] ELSE PyStr(response)

ContentOf(response) == Unwrapped(response, json_loads(response))

\* Some(parsed) when the text parsed to a record with the required fields
Validated(parsed) == IF parsed.ok /\ _validate_structure(parsed.v) THEN Some(parsed.v) ELSE None

\* json.loads(json_content) validated; it raises on what is no string
LoadContent(json_content) ==
    IF json_content.t # "str" THEN None ELSE Validated(json_loads(json_content.v))

\* lines 114-125, once the response is parsed
DirectParsed(response, response_obj) ==
    IF ~response_obj.ok THEN None ELSE LoadContent(Unwrapped(response, response_obj))

\* a first strategy that never succeeds
DirectParseFails(response) == None

_strategy_direct_parse(response) == DirectParsed(response, json_loads(response))

RECURSIVE BraceEnd(_, _, _)
\* the position of the brace that brings brace_count back to 0, scanning the
\* braces from i on; 0 when none does
BraceEnd(content, i, brace_count) ==
    LET b == NextStop(content, i, {"{", "}"}) IN
    IF b > Len(content) THEN 0
    ELSE IF Char(content, b) = "{" THEN BraceEnd(content, b + 1, brace_count + 1)
    ELSE IF brace_count - 1 = 0 THEN b ELSE BraceEnd(content, b + 1, brace_count - 1)

\* content[start_idx:end_idx + 1], validated: None when no brace opens or
\* the first one is never closed
Slice(content, start_idx, end_idx) ==
    IF start_idx = 0 \/ end_idx = 0 THEN None
    ELSE Validated(json_loads(SubSeq(content, start_idx, end_idx)))

\* lines 135-156: the brace counting from the first '{' on
BraceCounted(content, start_idx) ==
    IF start_idx = 0 THEN None
    ELSE Slice(content, start_idx, BraceEnd(content, start_idx, 0))

\* lines 131-156, once the response is parsed; content.find raises on what
\* is no string
Extracted(response_obj) ==
    IF ~IsWrapper(response_obj) \/ response_obj.v.v["response"].t # "str" THEN None
    ELSE BraceCounted(response_obj.v.v["response"].v,
                      Find(response_obj.v.v["response"].v, "{", 1))

_strategy_extract_json(response) == Extracted(json_loads(response))

\* repair_json(content, return_objects=True) is library code: its result is
\* an input, None standing for an exception or a value that is no record
_strategy_json_repair_lib(response, lib) ==
    IF lib # None /\ _validate_structure(lib[1]) THEN lib ELSE None

\* lines 195-201; re.sub raises on what is no string
RegexRepaired(content) ==
    IF content.t # "str" THEN None ELSE Validated(json_loads(_apply_regex_fixes(content.v)))

_strategy_regex_repair(response) == RegexRepaired(ContentOf(response))

\* ast.literal_eval(content[start_idx:end_idx + 1]), validated
DictText(content, start_idx, end_idx) ==
    IF start_idx = 0 \/ end_idx = 0 THEN None
    ELSE Validated(literal_eval(SubSeq(content, start_idx, end_idx)))

\* lines 219-229; content.find raises on what is no string
AstRepaired(content) ==
    IF content.t # "str" THEN None
    ELSE DictText(content.v, Find(content.v, "{", 1), RFind(content.v, "}"))

_strategy_ast_repair(response) == AstRepaired(ContentOf(response))

RECURSIVE SearchString(_, _, _)
\* re.search(r'"name"\s*:\s*"([^"]*)"', content) from position i: None or
\* Some(group 1)
SearchString(content, name, i) ==
    LET p == Find(content, "\"" \o name \o "\"", i)
        c == SkipSpaces(content, p + Len(name) + 2)
        o == SkipSpaces(content, c + 1)
        e == Find(content, "\"", o + 1)
    IN  IF p = 0 THEN None
        ELSE IF MatchAt(content, c, ":") /\ MatchAt(content, o, "\"") /\ e # 0
             THEN Some(SubSeq(content, o + 1, e - 1))
             ELSE SearchString(content, name, p + 1)

RECURSIVE SearchArray(_, _, _, _)
\* re.search(r'"name"\s*:\s*(?:"([^"]*)"|(\[[^\]]*\]))', content) from i, the
\* first alternative only when quoted is TRUE: None or Some of the groups
SearchArray(content, name, quoted, i) ==
    LET p == Find(content, "\"" \o name \o "\"", i)
        c == SkipSpaces(content, p + Len(name) + 2)
        o == SkipSpaces(content, c + 1)
        e == Find(content, "\"", o + 1)
        b == Find(content, "]", o + 1)
    IN  IF p = 0 THEN None
        ELSE IF quoted /\ MatchAt(content, c, ":") /\ MatchAt(content, o, "\"") /\ e # 0
             THEN Some([g1 |-> Some(SubSeq(content, o + 1, e - 1)), g2 |-> None])
        ELSE IF MatchAt(content, c, ":") /\ MatchAt(content, o, "[") /\ b # 0
             THEN Some([g1 |-> None, g2 |-> Some(SubSeq(content, o, b))])
        ELSE SearchArray(content, name, quoted, p + 1)

\* [PyStr(f) for f in parts]
StrList(parts) == PyList([k \in 1..Len(parts) |-> PyStr(parts[k])])

\* group.strip('[]').split(',')
SplitArray(group) == Split(StripChars(group, {"[", "]"}), ",")

\* [f.strip().strip('"\'') for f in parts]
StripEach(parts) == [k \in 1..Len(parts) |-> StripChars(strip(parts[k]), {"\"", "'"})]

\* the parsed group, else the group split by hand
ArrayOr(parsed, group, stripped) ==
    IF parsed.ok THEN parsed.v
    ELSE IF stripped THEN StrList(StripEach(SplitArray(group)))
    ELSE StrList(SplitArray(group))

\* json.loads(group), else the group split by hand
ArrayOf(group, stripped) == ArrayOr(json_loads(group), group, stripped)

\* fields[name] = value when the search matched
WithField(fields, name, match) ==
    IF match = None THEN fields ELSE (name :> match[1]) @@ fields

\* Some(PyStr(group 1)) of a string search
StrMatch(match) == IF match = None THEN None ELSE Some(PyStr(match[1]))

\* the audience field: a non-empty quoted text, or the bracketed group
AudienceOf(audience_match) ==
    IF audience_match = None THEN None
    ELSE IF audience_match[1].g1 # None
         THEN IF audience_match[1].g1[1] # "" THEN Some(PyStr(audience_match[1].g1[1]))
              ELSE None
         ELSE Some(ArrayOf(audience_match[1].g2[1], FALSE))

FeaturesOf(features_match) ==
    IF features_match = None THEN None ELSE Some(ArrayOf(features_match[1].g2[1], TRUE))

\* the fields dict the searches fill
TemplateFields(content) ==
    WithField(
     WithField(
      WithField(
       WithField(
        WithField(
         WithField(EmptyDict, "product", StrMatch(SearchString(content, "product", 1))),
         "audience", AudienceOf(SearchArray(content, "audience", TRUE, 1))),
        "tone", StrMatch(SearchString(content, "tone", 1))),
       "description", StrMatch(SearchString(content, "description", 1))),
      "features", FeaturesOf(SearchArray(content, "features", FALSE, 1))),
     "scene", StrMatch(SearchString(content, "scene", 1)))

\* fields when it has the required ones
ValidFields(fields) == IF _validate_structure(PyDict(fields)) THEN Some(PyDict(fields)) ELSE None

\* lines 247-291; re.search raises on what is no string
Reconstructed(content) ==
    IF content.t # "str" THEN None ELSE ValidFields(TemplateFields(content.v))

_strategy_template_reconstruction(response) == Reconstructed(ContentOf(response))

\* a strategy's record reaching the caller, or an exception doing so
Repaired(v, strategy) == [raised |-> FALSE, v |-> v, strategy |-> strategy]

RepairRaises(strategy) == [raised |-> TRUE, v |-> PyNone, strategy |-> strategy]

\* a cut fifty characters later
LaterCut == 200 + 50

DescriptionCap == 200

RECURSIVE ProductLine(_, _)
\* the first line from the k-th on with 'product' in line.lower() and ':' in line
ProductLine(lines, k) ==
    IF k > Len(lines) THEN None
    ELSE IF Contains(lower(lines[k]), "product") /\ Contains(lines[k], ":")
         THEN Some(lines[k]) ELSE ProductLine(lines, k + 1)

\* fallback['product'] of the first line naming a product
ProductOf(line) ==
    LET parts == Split(line, ":") IN StripChars(strip(parts[Len(parts)]), {"\"", "'"})

\* the record with the scene of another wording
OtherSceneRecord(content, line) ==
    [product |-> PyStr("Unknown Product"),
     audience |-> PyStr("general"),
     tone |-> PyStr("neutral"),
     description |-> PyStr("Unable to generate description"),
     features |-> StrList(<<"feature not available">>),
     scene |-> PyStr("A simple product scene")]

\* the fallback dict built from a content that is a string, line being the
\* first one that names a product
FallbackRecord(content, line) ==
    [product |-> PyStr(IF line = None THEN "Unknown Product" ELSE ProductOf(line[1])),
     audience |-> PyStr("general"),
     tone |-> PyStr("neutral"),
     description |-> PyStr(IF content # "" THEN Take(content, DescriptionCap)
                           ELSE "Unable to generate description"),
     features |-> StrList(<<"feature not available">>),
     scene |-> PyStr("A simple product showcase scene")]

\* content[:200] and content.split raise on a content that is no string, and
\* no try surrounds them
DefaultFrom(content) ==
    IF content.t # "str" THEN RepairRaises("default_fallback")
    ELSE Repaired(PyDict(FallbackRecord(content.v, ProductLine(Split(content.v, "\n"), 1))),
                  "default_fallback")

_strategy_default_fallback(response) == DefaultFrom(ContentOf(response))

\* "if parsed: ... return parsed" after a strategy, else what comes next
OrElse(parsed, strategy, next) ==
    IF parsed # None THEN Repaired(parsed[1], strategy) ELSE next

\* the engine with the library tried before the direct parse
LibraryFirst(response, lib) ==
    OrElse(_strategy_json_repair_lib(response, lib), "json_repair_lib",
    OrElse(_strategy_direct_parse(response), "direct_parse",
    OrElse(_strategy_extract_json(response), "extract_json",
    OrElse(_strategy_regex_repair(response), "regex_repair",
    OrElse(_strategy_ast_repair(response), "ast_repair",
    OrElse(_strategy_template_reconstruction(response), "template_reconstruction",
           _strategy_default_fallback(response)))))))

repair_json_response(response, lib) ==
    OrElse(_strategy_direct_parse(response), "direct_parse",
    OrElse(_strategy_extract_json(response), "extract_json",
    OrElse(_strategy_json_repair_lib(response, lib), "json_repair_lib",
    OrElse(_strategy_regex_repair(response), "regex_repair",
    OrElse(_strategy_ast_repair(response), "ast_repair",
    OrElse(_strategy_template_reconstruction(response), "template_reconstruction",
           _strategy_default_fallback(response)))))))

\* the record of the except branch
error_record ==
    PyDict([product |-> PyStr("Error in processing"),
            audience |-> PyStr("general"),
            tone |-> PyStr("neutral"),
            description |-> PyStr("Unable to process the response properly"),
            features |-> StrList(<<"processing error">>),
            scene |-> PyStr("A basic product scene")])

\* the try of lines 393-416 around the result of the engine
Caught(result) == IF result.raised THEN Repaired(error_record, "error") ELSE result

\* the call without the except clause of lines 409-416
UncaughtRepair(response, lib) == repair_json_response(response, lib)

parse_llm_json_with_repair(response, lib) == Caught(repair_json_response(response, lib))

(***************************************************************************)
(* The response texts the model draws, and what the library may answer     *)
(***************************************************************************)
\* the empty string
EmptyResponse ==
    ""

\* text that holds no JSON
ProseResponse ==
    "not json at all"

\* a record with the six fields
ValidResponse ==
    "{\"product\": \"Mug\", \"audience\": \"all\", \"tone\": \"warm\", \"description\": \"A mug\", \"features\": [\"big\"], \"scene\": \"desk\"}"

\* valid JSON that lacks required keys
MissingKeysResponse ==
    "{\"product\": \"Mug\"}"

\* the record as the text of a wrapper's response field
WrappedResponse ==
    "{\"response\": \"{\\\"product\\\": \\\"Mug\\\", \\\"audience\\\": \\\"all\\\", \\\"tone\\\": \\\"warm\\\", \\\"description\\\": \\\"A mug\\\", \\\"features\\\": [\\\"big\\\"], \\\"scene\\\": \\\"desk\\\"}\"}"

\* a wrapper whose text has prose around the record
WrappedProseResponse ==
    "{\"response\": \"Here you go: {\\\"product\\\": \\\"Mug\\\", \\\"audience\\\": \\\"all\\\", \\\"tone\\\": \\\"warm\\\", \\\"description\\\": \\\"A mug\\\", \\\"features\\\": [\\\"big\\\"], \\\"scene\\\": \\\"desk\\\"} Enjoy\"}"

\* a wrapper whose response field is a number
NumberWrappedResponse ==
    "{\"response\": 123}"

\* a wrapper whose response field is null
NullWrappedResponse ==
    "{\"response\": null}"

\* a record whose values are null, a list, a number and an empty list
NullFieldResponse ==
    "{\"product\": null, \"audience\": [\"a\", \"b\"], \"tone\": 3, \"description\": \"A mug\", \"features\": [], \"scene\": \"desk\"}"

\* unquoted keys and a trailing comma
BareKeysResponse ==
    "{product: 1, audience: 2, tone: 3, description: 4, features: 5, scene: 6,}"

\* the record with a trailing comma
TrailingCommaResponse ==
    "{\"product\": \"Mug\", \"audience\": \"all\", \"tone\": \"warm\", \"description\": \"A mug\", \"features\": [\"big\"], \"scene\": \"desk\",}"

\* the record with a null field and a trailing comma
TrailingCommaNullResponse ==
    "{\"product\": \"Mug\", \"audience\": \"all\", \"tone\": \"warm\", \"description\": \"A mug\", \"features\": [\"big\"], \"scene\": null,}"

\* a Python dict literal
PythonResponse ==
    "{'product': None, 'audience': 'all', 'tone': 'warm', 'description': 'A mug', 'features': ['big'], 'scene': 'desk'}"

\* the six fields without the braces
TemplateResponse ==
    "\"product\": \"Mug\", \"audience\": \"all\", \"tone\": \"warm\", \"description\": \"A mug\", \"features\": [\"big\"], \"scene\": \"desk\""

\* prose with a line naming the product
ProductLineResponse ==
    "Intro\nProduct: \"Mug\"\nIt is nice"

\* prose of 210 characters
LongResponse ==
    "The quick brown fox jumps over the lazy dog and keeps running through the meadow until the evening comes. The quick brown fox jumps over the lazy dog and keeps running through the meadow until the 0123456789ABC"

\* the record with prose around it, no wrapper
RawProseResponse ==
    "Here you go: {\"product\": \"Mug\", \"audience\": \"all\", \"tone\": \"warm\", \"description\": \"A mug\", \"features\": [\"big\"], \"scene\": \"desk\"} Enjoy"

\* a wrapper whose text opens a brace and never closes it
UnclosedWrappedResponse ==
    "{\"response\": \"Here: {\\\"product\\\": \\\"Mug\\\"\"}"

Responses ==
    {EmptyResponse, ProseResponse, ValidResponse, MissingKeysResponse, WrappedResponse,
     WrappedProseResponse, NumberWrappedResponse, NullWrappedResponse, NullFieldResponse,
     BareKeysResponse,
     TrailingCommaResponse, TrailingCommaNullResponse, PythonResponse, TemplateResponse,
     ProductLineResponse, LongResponse, RawProseResponse, UnclosedWrappedResponse}

\* a record of the library with the six fields, and one without
LibRecord ==
    PyDict([product |-> PyStr("Mug"), audience |-> PyStr("all"), tone |-> PyStr("warm"),
            description |-> PyStr("A mug"), features |-> StrList(<<"big">>),
            scene |-> PyStr("desk")])

LibPartial == PyDict([product |-> PyStr("Mug")])

\* the library builds a record only from a text that opens one
LibResultsOn(content) ==
    IF content.t = "str" /\ Contains(content.v, "{")
    THEN {None, Some(LibPartial), Some(LibRecord)}
    ELSE {None}

LibResults(response) == LibResultsOn(ContentOf(response))

VARIABLES
    entry,              \* the entry point of the package this run exercises
    now,                \* time.time()
    cached_trends,      \* self.cached_trends: None or Some(list)
    cache_expiry,       \* self.cache_expiry
    last_request_time,  \* self.last_request_time
    calls,              \* per request: where its coroutine is suspended
    event,              \* what the last step did: the source pass, the return
    story_in,           \* the list create_spiced_story is called on directly
    story_out,          \* None, or Some(what that call did)
    response,           \* the text parse_llm_json_with_repair is called on
    repaired,           \* None, or Some(what that call did)
    probe,              \* the string the two topic functions are called on directly
    verdict,            \* None, or Some(what _is_sensitive_topic(probe) returned)
    hooks,              \* None, or Some(what extract_hook_keywords(probe) returned)
    filter_in,          \* the list _filter_and_validate_trends is called on directly
    filter_out,         \* None, or Some(what that call returned)
    chain_start,        \* history: None, or Some(when the list of sources was last started on)
    fallback_cached     \* history: None, or Some(the fallback list last cached, its expiry)

vars == << entry, now, cached_trends, cache_expiry, last_request_time, calls, event,
           story_in, story_out, response, repaired, probe, verdict, hooks,
           filter_in, filter_out, chain_start, fallback_cached >>

topic_vars == <<probe, verdict, hooks>>

filter_vars == <<filter_in, filter_out>>

cache_vars == <<cached_trends, cache_expiry, last_request_time>>

Idle == [pc |-> "idle", i |-> 0, only_unsafe |-> FALSE]

\* event: caller, the source whose outcome the step handled (src, outcome),
\* and, when fetch_trends_multi_source returned in the step, how (via), the
\* list (trends), the story get_trending_spiced_story then returned and the
\* attempt of its loop it returned in (story_attempts)
NoEvent ==
    [ caller |-> "none", src |-> 0, outcome |-> "none", via |-> "none", trends |-> <<>>,
      all_unsafe |-> FALSE, only_unsafe |-> FALSE, story |-> None, story_attempts |-> 0 ]

\* a cache that is never found valid
CacheNeverValid(t) == FALSE

\* _is_cache_valid() at time t
_is_cache_valid(t) ==
    /\ cached_trends # None
    /\ t < cache_expiry
    /\ Len(cached_trends[1]) > 0

\* an update that stores the list short of its last entry
PartialUpdate(trends) ==
    /\ cached_trends' = Some(SubSeq(trends, 1, Len(trends) - 1))
    /\ cache_expiry' = now' + cache_duration
    /\ last_request_time' = now'

\* an update that gives the cache no time to live
ExpiredUpdate(trends) ==
    /\ cached_trends' = Some(trends)
    /\ cache_expiry' = now'
    /\ last_request_time' = now'

\* _update_cache(trends)
_update_cache(trends) ==
    /\ cached_trends' = Some(trends)
    /\ cache_expiry' = now' + cache_duration
    /\ last_request_time' = now'

\* _respect_rate_limit(): the time at which it returns (time.sleep blocks the
\* event loop, so no other coroutine runs meanwhile)
_respect_rate_limit ==
    LET time_since_last == now - last_request_time IN
    IF time_since_last < min_request_interval
    THEN now + (min_request_interval - time_since_last)
    ELSE now

WithHooks(story_data, hook_keywords) ==
    [ original_trend |-> story_data.original_trend,
      clean_trend    |-> story_data.clean_trend,
      spiced_story   |-> story_data.spiced_story,
      modifier_used  |-> story_data.modifier_used,
      hook_keywords  |-> hook_keywords ]

\* a request loop that gives up at once: the fallback story, nothing selected
GivesUp(story_attempt, trends, rnd) ==
    [story |-> WithHooks(_get_fallback_story, None), story_attempt |-> story_attempt]

RECURSIVE StoryAttemptsRun(_, _, _)
\* the while loop of get_trending_spiced_story once fetch_trends_multi_source
\* handed back `trends` in attempt story_attempt: the story it returns and the
\* attempt it returns in.  A retry fetches again and gets the same list: the
\* cache was written or found valid at this instant.
StoryAttemptsRun(story_attempt, trends, rnd) ==
    LET retry == IF story_attempt >= max_story_attempts
                 THEN [story |-> WithHooks(_get_fallback_story, None),
                       story_attempt |-> story_attempt]
                 ELSE StoryAttemptsRun(story_attempt + 1, trends, rnd)
    IN  IF trends = <<>> THEN retry
        ELSE LET story_data == create_spiced_story(trends, rnd) IN
             IF ~IsSensitive(story_data.original_trend)
             THEN [story |-> WithHooks(story_data, Some(HookTable[story_data.original_trend])),
                   story_attempt |-> story_attempt]
             ELSE retry

StoryAttempts(story_attempt, trends, rnd) == StoryAttemptsRun(story_attempt, trends, rnd).story

InitService ==
    /\ entry = "service"
    /\ now = StartTime
    /\ cached_trends = None
    /\ cache_expiry = 0
    /\ last_request_time = 0
    /\ calls = [c \in Callers |-> Idle]
    /\ event = NoEvent
    /\ story_in = <<>>
    /\ story_out = None
    /\ response = ""
    /\ repaired = None
    /\ probe = ""
    /\ verdict = None
    /\ hooks = None
    /\ filter_in = <<>>
    /\ filter_out = None
    /\ chain_start = None
    /\ fallback_cached = None

StoryLists == UNION {[1..n -> StoryTrends] : n \in 0..MaxStoryList}

InitStory ==
    /\ entry = "create_spiced_story"
    /\ now = StartTime
    /\ cached_trends = None
    /\ cache_expiry = 0
    /\ last_request_time = 0
    /\ calls = [c \in Callers |-> Idle]
    /\ event = NoEvent
    /\ story_in \in StoryLists
    /\ story_out = None
    /\ response = ""
    /\ repaired = None
    /\ probe = ""
    /\ verdict = None
    /\ hooks = None
    /\ filter_in = <<>>
    /\ filter_out = None
    /\ chain_start = None
    /\ fallback_cached = None

InitRepair ==
    /\ entry = "repair"
    /\ now = StartTime
    /\ cached_trends = None
    /\ cache_expiry = 0
    /\ last_request_time = 0
    /\ calls = [c \in Callers |-> Idle]
    /\ event = NoEvent
    /\ story_in = <<>>
    /\ story_out = None
    /\ response \in Responses
    /\ repaired = None
    /\ probe = ""
    /\ verdict = None
    /\ hooks = None
    /\ filter_in = <<>>
    /\ filter_out = None
    /\ chain_start = None
    /\ fallback_cached = None

InitTopic ==
    /\ entry = "topic"
    /\ now = StartTime
    /\ cached_trends = None
    /\ cache_expiry = 0
    /\ last_request_time = 0
    /\ calls = [c \in Callers |-> Idle]
    /\ event = NoEvent
    /\ story_in = <<>>
    /\ story_out = None
    /\ response = ""
    /\ repaired = None
    /\ probe \in GivenTopics
    /\ verdict = None
    /\ hooks = None
    /\ filter_in = <<>>
    /\ filter_out = None
    /\ chain_start = None
    /\ fallback_cached = None

MaxFilterBatch == 2

\* the lists of up to MaxFilterBatch candidates, and four lists of static
\* topics: 4, 12, 20 and 30 entries that all pass the filter
FilterLists ==
    UNION {[1..n -> FilterProbes] : n \in 0..MaxFilterBatch}
        \cup {Take(safe_topics, 4), Take(safe_topics, 12), safe_topics,
              safe_topics \o safe_fallback_trends}

InitFilter ==
    /\ entry = "filter"
    /\ now = StartTime
    /\ cached_trends = None
    /\ cache_expiry = 0
    /\ last_request_time = 0
    /\ calls = [c \in Callers |-> Idle]
    /\ event = NoEvent
    /\ story_in = <<>>
    /\ story_out = None
    /\ response = ""
    /\ repaired = None
    /\ probe = ""
    /\ verdict = None
    /\ hooks = None
    /\ filter_in \in FilterLists
    /\ filter_out = None
    /\ chain_start = None
    /\ fallback_cached = None

Init == InitService \/ InitStory \/ InitRepair \/ InitTopic \/ InitFilter

\* the sources whose body awaits I/O (aiohttp); the other three run to their
\* end without giving the event loop a turn
suspending == {"_fetch_from_rss_feed", "_fetch_from_reddit_trending"}

\* the event loop can run caller c: no other coroutine is inside a source
\* that does not suspend
CanRun(c) ==
    \A d \in Callers \ {c} : calls[d].pc = "awaiting" => sources[calls[d].i] \in suspending

\* get_trending_spiced_story() is called: the rate limiter, then the first
\* fetch_trends_multi_source(), which answers from a valid cache at once and
\* otherwise awaits the first source
StartTrending(c) ==
    /\ entry = "service"
    /\ calls[c].pc = "idle"
    /\ CanRun(c)
    /\ _respect_rate_limit <= MaxTime
    /\ now' = _respect_rate_limit
    /\ UNCHANGED <<entry, cache_vars, story_in, story_out, response, repaired, topic_vars,
                   filter_vars, fallback_cached>>
    /\ IF _is_cache_valid(now')
       THEN /\ \E rnd \in Choices :
                 event' = [ caller |-> c, src |-> 0, outcome |-> "none", via |-> "cache",
                            trends |-> cached_trends[1],
                            all_unsafe |-> FALSE, only_unsafe |-> FALSE,
                            story |-> Some(StoryAttempts(1, cached_trends[1], rnd)),
                            story_attempts |->
                                StoryAttemptsRun(1, cached_trends[1], rnd).story_attempt ]
            /\ UNCHANGED <<calls, chain_start>>
       ELSE /\ calls' = [calls EXCEPT ![c] = [pc |-> "awaiting", i |-> 1, only_unsafe |-> TRUE]]
            /\ event' = [NoEvent EXCEPT !.caller = c]
            /\ chain_start' = Some(now')

\* fetch_trends_multi_source caches and returns `trends`, and
\* get_trending_spiced_story runs on to its return
FetchReturns(c, pass, via, trends, only_unsafe) ==
    /\ _update_cache(trends)
    /\ calls' = [calls EXCEPT ![c] = Idle]
    /\ fallback_cached' = IF via = "fallback"
                          THEN Some([trends |-> cached_trends'[1], expiry |-> cache_expiry'])
                          ELSE fallback_cached
    /\ \E rnd \in Choices :
          event' = [ caller |-> c, src |-> calls[c].i, outcome |-> pass.outcome, via |-> via,
                     trends |-> trends,
                     all_unsafe |-> pass.all_unsafe, only_unsafe |-> only_unsafe,
                     story |-> Some(StoryAttempts(1, trends, rnd)),
                     story_attempts |-> StoryAttemptsRun(1, trends, rnd).story_attempt ]

\* the awaited source i ends; the loop of fetch_trends_multi_source runs on to
\* its next await or to its return
SourceReturns(c) ==
    /\ entry = "service"
    /\ calls[c].pc = "awaiting"
    /\ CanRun(c)
    /\ UNCHANGED <<entry, now, story_in, story_out, response, repaired, topic_vars, filter_vars,
                   chain_start>>
    /\ \E pass \in SourcePasses[calls[c].i] :
          LET i == calls[c].i
              only_unsafe == calls[c].only_unsafe /\ pass.all_unsafe
          IN  IF pass.outcome = "safe"
              THEN FetchReturns(c, pass, "source", pass.final_safe_trends, only_unsafe)
              ELSE IF i < Len(sources)
                   THEN /\ calls' = [calls EXCEPT ![c] =
                                       [pc |-> "awaiting", i |-> i + 1,
                                        only_unsafe |-> only_unsafe]]
                        /\ event' = [NoEvent EXCEPT !.caller = c, !.src = i,
                                                    !.outcome = pass.outcome,
                                                    !.all_unsafe = pass.all_unsafe,
                                                    !.only_unsafe = only_unsafe]
                        /\ UNCHANGED <<cache_vars, fallback_cached>>
                   ELSE \E fallback_trends \in _get_fallback_trends :
                           FetchReturns(c, pass, "fallback", fallback_trends, only_unsafe)

\* time passes
Tick ==
    /\ entry = "service"
    /\ now + TickStep <= MaxTime
    /\ now' = now + TickStep
    /\ event' = NoEvent
    /\ UNCHANGED <<entry, cache_vars, calls, story_in, story_out, response, repaired, topic_vars, filter_vars,
                   chain_start, fallback_cached>>

\* create_spiced_story(story_in) is called
CreateStory ==
    /\ entry = "create_spiced_story"
    /\ story_out = None
    /\ \E rnd \in StoryChoices : story_out' = Some(CreateStoryRun(story_in, rnd))
    /\ UNCHANGED <<entry, now, cache_vars, calls, event, story_in, response, repaired, topic_vars, filter_vars,
                   chain_start, fallback_cached>>

\* parse_llm_json_with_repair(response) is called
Repair ==
    /\ entry = "repair"
    /\ repaired = None
    /\ \E lib \in LibResults(response) :
          repaired' = Some(parse_llm_json_with_repair(response, lib))
    /\ UNCHANGED <<entry, now, cache_vars, calls, event, story_in, story_out, response, topic_vars, filter_vars,
                   chain_start, fallback_cached>>

\* _is_sensitive_topic(probe) is called
IsSensitiveTopic ==
    /\ entry = "topic"
    /\ verdict = None
    /\ verdict' = Some(_is_sensitive_topic(probe))
    /\ UNCHANGED <<entry, now, cache_vars, calls, event, story_in, story_out, response,
                   repaired, probe, hooks, filter_vars, chain_start, fallback_cached>>

\* extract_hook_keywords(probe) is called
ExtractHookKeywords ==
    /\ entry = "topic"
    /\ hooks = None
    /\ hooks' = Some(extract_hook_keywords(probe))
    /\ UNCHANGED <<entry, now, cache_vars, calls, event, story_in, story_out, response,
                   repaired, probe, verdict, filter_vars, chain_start, fallback_cached>>

\* _filter_and_validate_trends(filter_in) is called
FilterTrendsCall ==
    /\ entry = "filter"
    /\ filter_out = None
    /\ filter_out' = Some(_filter_and_validate_trends(filter_in))
    /\ UNCHANGED <<entry, now, cache_vars, calls, event, story_in, story_out, response,
                   repaired, topic_vars, filter_in, chain_start, fallback_cached>>

Next ==
    \/ \E c \in Callers : StartTrending(c)
    \/ \E c \in Callers : SourceReturns(c)
    \/ Tick
    \/ CreateStory
    \/ Repair
    \/ IsSensitiveTopic
    \/ ExtractHookKeywords
    \/ FilterTrendsCall

Spec == Init /\ [][Next]_vars

(***************************************************************************)
(* Properties                                                              *)
(***************************************************************************)
\* C1: on every response text, the empty string, prose and JSON short of
\* required keys included, parse_llm_json_with_repair returns a dict holding
\* all six required keys and raises nothing to its caller
C1_RepairIsTotal ==
    repaired # None =>
        /\ ~repaired[1].raised
        /\ repaired[1].v.t = "dict"
        /\ {"product", "audience", "tone", "description", "features", "scene"}
               \subseteq DOMAIN repaired[1].v.v

\* the last strategy raised on a wrapper whose "response" is a number, and
\* the caller still got the error record
C1_Witness ==
    /\ entry = "repair"
    /\ response = NumberWrappedResponse
    /\ repaired # None
    /\ repaired[1].strategy = "error"
    /\ repaired[1].v = error_record

\* what _is_sensitive_topic says of every string of a list
AllSafe(trends) == \A k \in 1..Len(trends) : ~SensitiveTable[trends[k]]

\* C2: every string of a list fetch_trends_multi_source returns, from a live
\* source, the curated generator, the cache or the static fallback, is one
\* _is_sensitive_topic classifies as not sensitive
C2_ReturnedTrendsSafe ==
    event.via # "none" => AllSafe(event.trends)

\* a live source's batch was returned with the live trend in it
C2_Witness ==
    /\ event.via = "source"
    /\ event.src = 1
    /\ Len(event.trends) > 1
    /\ event.trends[1] = SafeTrend

StorySafe(story) ==
    /\ ~SensitiveTable[story.original_trend]
    /\ ~SensitiveTable[story.clean_trend]

\* C3: every story create_spiced_story or get_trending_spiced_story returns
\* has an original_trend and a clean_trend that _is_sensitive_topic both
\* classifies as not sensitive
C3_StoryTrendsSafe ==
    /\ story_out # None => StorySafe(story_out[1].story)
    /\ event.story # None => StorySafe(event.story[1])

\* a story was made from the second candidate, the first being one that is
\* sensitive only once cleaned
C3_Witness ==
    /\ story_out # None
    /\ Len(story_in) >= 2
    /\ story_in[1] = CleansUnsafeTrend
    /\ story_out[1].accepted = 2
    /\ story_out[1].story.original_trend = story_in[2]

\* C4: when every source returned only unsafe candidates, the list
\* fetch_trends_multi_source returns is the whole fixed list held in
\* _get_fallback_trends, equal by value
C4_FallbackListExactly ==
    (event.via \in {"source", "fallback"} /\ event.only_unsafe)
        => event.trends = safe_topics

\* C5: the sources are awaited in the order of the list, source i+1 only
\* after source i raised, returned nothing or returned no safe candidate, and
\* the first source that returns a safe candidate ends the fetch with its
\* list: no later source is awaited
C5_SourcesInOrder ==
    [][\A c \in Callers :
          /\ (calls'[c].pc = "awaiting" /\ calls'[c] # calls[c]) =>
                \/ calls[c].pc = "idle" /\ calls'[c].i = 1
                \/ /\ calls[c].pc = "awaiting"
                   /\ calls'[c].i = calls[c].i + 1
                   /\ event'.caller = c
                   /\ event'.src = calls[c].i
                   /\ \/ event'.outcome \in {"raised", "empty"}
                      \/ event'.all_unsafe
          /\ ( /\ calls[c].pc = "awaiting"
               /\ event'.caller = c
               /\ event'.outcome \in {"safe", "unsafe"}
               /\ ~event'.all_unsafe ) =>
                /\ event'.via = "source"
                /\ event'.src = calls[c].i
                /\ event'.trends # <<>>
                /\ calls'[c].pc = "idle"]_vars

\* the third source's list was returned, a safe candidate in its batch
C5_Witness ==
    /\ event.via = "source"
    /\ event.src = 3
    /\ event.outcome = "safe"
    /\ ~event.all_unsafe

\* C6: a source whose non-empty batch holds only unsafe candidates does not
\* succeed: it is abandoned and the next source is tried
C6_UnsafeBatchAbandoned ==
    event.all_unsafe => (event.outcome = "unsafe" /\ event.via # "source")

\* a candidate create_spiced_story turns down: sensitive as given or once
\* cleaned
UnsafeCandidate(t) == SensitiveTable[t] \/ SensitiveTable[CleanTable[t]]

\* C7: create_spiced_story goes through the candidates in list order; when
\* fewer than three unsafe candidates precede the first candidate safe both as
\* given and once cleaned, the story returned is of that candidate; every
\* candidate before an accepted one was unsafe as given or once cleaned
C7_FirstSafeCandidate ==
    story_out # None =>
        LET run == story_out[1] IN
        /\ \A k \in 1..Len(story_in) :
              ( /\ k - 1 < 3
                /\ ~UnsafeCandidate(story_in[k])
                /\ \A j \in 1..(k - 1) : UnsafeCandidate(story_in[j]) )
              => /\ run.accepted = k
                 /\ run.story.original_trend = story_in[k]
                 /\ run.story.clean_trend = CleanTable[story_in[k]]
        /\ run.accepted > 0 =>
              /\ ~UnsafeCandidate(story_in[run.accepted])
              /\ \A j \in 1..(run.accepted - 1) : UnsafeCandidate(story_in[j])
              /\ run.story.original_trend = story_in[run.accepted]

\* the third candidate was accepted after one sensitive as given and one
\* sensitive once cleaned
C7_Witness ==
    /\ story_out # None
    /\ Len(story_in) >= 3
    /\ SensitiveTable[story_in[1]]
    /\ ~SensitiveTable[story_in[2]] /\ SensitiveTable[CleanTable[story_in[2]]]
    /\ story_out[1].accepted = 3

\* C8: create_spiced_story examines at most three candidates; when the first
\* three are each unsafe, or the list ends before a safe one, it returns the
\* fixed fallback story whatever follows
C8_AtMostThreeCandidates ==
    story_out # None =>
        LET run == story_out[1] IN
        /\ run.attempts <= 3
        /\ run.accepted <= 3
        /\ (\A k \in 1..Min(3, Len(story_in)) : UnsafeCandidate(story_in[k])) =>
              /\ run.accepted = 0
              /\ run.story = _get_fallback_story

\* three unsafe candidates, then a safe fourth that is never examined
C8_Witness ==
    /\ story_out # None
    /\ Len(story_in) = 4
    /\ ~UnsafeCandidate(story_in[4])
    /\ story_out[1].attempts = 3
    /\ story_out[1].story = _get_fallback_story

\* C9: a fetch that finds the cache valid (cached_trends non-empty, the time
\* before cache_expiry) returns the cached entries, awaits no source and
\* leaves cached_trends, cache_expiry and last_request_time as they were
C9_ValidCacheShortCircuits ==
    [][\A c \in Callers :
          ( /\ calls[c].pc = "idle"
            /\ event'.caller = c
            /\ cached_trends # None
            /\ now' < cache_expiry
            /\ Len(cached_trends[1]) > 0 )
          => /\ event'.via = "cache"
             /\ event'.trends = cached_trends[1]
             /\ event'.src = 0
             /\ calls'[c].pc = "idle"
             /\ UNCHANGED cache_vars]_vars

\* a request was answered from the cache while another was suspended at a
\* source
C9_Witness ==
    /\ event.via = "cache"
    /\ cached_trends # None
    /\ event.trends = cached_trends[1]
    /\ \E c \in Callers : calls[c].pc = "awaiting"

\* C10: in every state, those reached by interleaving fetches at their awaits
\* included, cached_trends is None or the whole list one _update_cache call
\* wrote, each entry classified not sensitive when it went in
C10_CacheWholeAndSafe ==
    /\ [](cached_trends # None => AllSafe(cached_trends[1]))
    /\ [][cached_trends' # cached_trends =>
             /\ event'.via \in {"source", "fallback"}
             /\ cached_trends' = Some(event'.trends)
             /\ cache_expiry' = now' + cache_duration]_vars

\* the cache was written by one request's fetch while another request was
\* suspended further down the list of sources
C10_Witness ==
    /\ event.via = "source"
    /\ cached_trends = Some(event.trends)
    /\ \E c \in Callers : calls[c].pc = "awaiting" /\ calls[c].i >= 2

\* the object ValidResponse and WrappedResponse spell
MugObject ==
    PyDict([product |-> PyStr("Mug"), audience |-> PyStr("all"), tone |-> PyStr("warm"),
            description |-> PyStr("A mug"), features |-> PyList(<<PyStr("big")>>),
            scene |-> PyStr("desk")])

\* the object NullFieldResponse spells
NullFieldObject ==
    PyDict([product |-> PyNone, audience |-> PyList(<<PyStr("a"), PyStr("b")>>),
            tone |-> PyNum("3"), description |-> PyStr("A mug"), features |-> PyList(<<>>),
            scene |-> PyStr("desk")])

\* C11: a strictly valid JSON object with exactly the six required fields,
\* given directly or as the JSON string in the "response" field of a wrapper,
\* is returned with no value changed, by strategy 1 (direct_parse), no later
\* strategy running
C11_ValidObjectReturnedAsIs ==
    repaired # None =>
        /\ response \in {ValidResponse, WrappedResponse}
              => repaired[1] = Repaired(MugObject, "direct_parse")
        /\ response = NullFieldResponse
              => repaired[1] = Repaired(NullFieldObject, "direct_parse")

\* the wrapped record came back from the first strategy
C11_Witness ==
    /\ entry = "repair"
    /\ response = WrappedResponse
    /\ repaired # None
    /\ repaired[1].strategy = "direct_parse"
    /\ repaired[1].v = MugObject

\* the lines of the content that name a product: 'product' in line.lower()
\* and ':' in line
ProductLines(content) ==
    LET lines == Split(content, "\n")
    IN  {k \in 1..Len(lines) : Contains(lower(lines[k]), "product") /\ Contains(lines[k], ":")}

\* the least number of a non-empty set of numbers
Least(S) == CHOOSE k \in S : \A j \in S : k <= j

\* C12 as stated: whenever strategies 1 to 6 all fail the record returned is
\* the fixed placeholder: product "Unknown Product", audience "general", tone
\* "neutral", features ["feature not available"], scene "A simple product
\* scene", none of them depending on the input
C12_FixedPlaceholder ==
    (repaired # None /\ repaired[1].strategy \in {"default_fallback", "error"}) =>
        LET f == repaired[1].v.v IN
        /\ f.product = PyStr("Unknown Product")
        /\ f.audience = PyStr("general")
        /\ f.tone = PyStr("neutral")
        /\ f.features = PyList(<<PyStr("feature not available")>>)
        /\ f.scene = PyStr("A simple product scene")

\* C12, amended: whenever strategies 1 to 6 all fail on a content that is a
\* string, the record has audience "general", tone "neutral", features
\* ["feature not available"], scene "A simple product showcase scene", and
\* product "Unknown Product" unless a line of the content names a product:
\* then product is what follows the last colon of the first such line,
\* stripped of whitespace and then of quotes.  On a content that is no string
\* the record is the one of the except clause.
C12_PlaceholderFields ==
    repaired # None =>
        LET f == repaired[1].v.v
            content == ContentOf(response)
            lines == Split(content.v, "\n")
            named == ProductLines(content.v)
            last == Split(lines[Least(named)], ":")
        IN  /\ repaired[1].strategy = "default_fallback" =>
                 /\ content.t = "str"
                 /\ f.audience = PyStr("general")
                 /\ f.tone = PyStr("neutral")
                 /\ f.features = PyList(<<PyStr("feature not available")>>)
                 /\ f.scene = PyStr("A simple product showcase scene")
                 /\ f.product =
                      IF named = {} THEN PyStr("Unknown Product")
                      ELSE PyStr(StripChars(strip(last[Len(last)]), {"\"", "'"}))
            /\ repaired[1].strategy = "error" =>
                 /\ content.t # "str"
                 /\ f.product = PyStr("Error in processing")
                 /\ f.audience = PyStr("general")
                 /\ f.tone = PyStr("neutral")
                 /\ f.description = PyStr("Unable to process the response properly")
                 /\ f.features = PyList(<<PyStr("processing error")>>)
                 /\ f.scene = PyStr("A basic product scene")

\* the last strategy took the product from a line of the prose
C12_Witness ==
    /\ entry = "repair"
    /\ response = ProductLineResponse
    /\ repaired # None
    /\ repaired[1].strategy = "default_fallback"
    /\ repaired[1].v.v.product = PyStr("Mug")

\* C13: in the record of the last strategy, description is the first
\* min(200, length) characters of the content, so never more than 200, and the
\* fixed message when the content is empty
C13_DescriptionIsPrefix ==
    (repaired # None /\ repaired[1].strategy = "default_fallback") =>
        LET content == ContentOf(response).v
            description == repaired[1].v.v.description
            n == IF Len(content) < 200 THEN Len(content) ELSE 200
        IN  /\ description.t = "str"
            /\ Len(description.v) <= 200
            /\ content # "" => description.v = SubSeq(content, 1, n)
            /\ content = "" => description.v = "Unable to generate description"

\* a content of more than 200 characters was cut to its first 200
C13_Witness ==
    /\ entry = "repair"
    /\ response = LongResponse
    /\ Len(response) > 200
    /\ repaired # None
    /\ repaired[1].strategy = "default_fallback"
    /\ Len(repaired[1].v.v.description.v) = 200

\* C14: on every response text, each of the six fields of the record the
\* repair engine returns is non-null
C14_FieldsNonNull ==
    repaired # None =>
        \A name \in {"product", "audience", "tone", "description", "features", "scene"} :
            /\ name \in DOMAIN repaired[1].v.v
            /\ repaired[1].v.v[name].t # "none"

HookWords == UNION {Range(HookTable[t]) : t \in GivenTopics}

HoldsAvoidWord == [w \in HookWords |-> ContainsAny(w, avoid_keywords)]

CleanKeywords(kws) ==
    \A k \in 1..Len(kws) :
        ~(IF kws[k] \in HookWords THEN HoldsAvoidWord[kws[k]]
                                  ELSE ContainsAny(kws[k], avoid_keywords))

\* C16: whatever the trend, no keyword extract_hook_keywords returns has an
\* avoid keyword as a substring, also when the trend holds avoid keywords
\* inside longer words ("Skilled bakers award") or shows them only once
\* cleaned ("Ki.ll time"); the same for the keywords of a returned story.
C16_HookKeywordsClean ==
    /\ hooks # None => CleanKeywords(hooks[1])
    /\ (event.story # None /\ event.story[1].hook_keywords # None)
          => CleanKeywords(event.story[1].hook_keywords[1])

C16_Witness ==
    /\ probe = "Skilled bakers award"
    /\ ContainsAny(lower(probe), avoid_keywords)
    /\ hooks = Some(<<"trending", "popular", "viral">>)

\* sub occurs in s, letter case apart
ContainsAnyCase(s, sub) ==
    \E i \in 1..(Len(s) - Len(sub) + 1) :
        \A j \in 1..Len(sub) : LowerChar(Char(s, i + j - 1)) = LowerChar(Char(sub, j))

HoldsAvoidKeyword(t) == \E k \in 1..Len(avoid_keywords) : ContainsAnyCase(t, avoid_keywords[k])

MatchesDangerRegex(t) ==
    \/ \E p \in 1..Len(sensitive_patterns) : WordBounded(t, sensitive_patterns[p])
    \/ HeadlineAt(t, 1, <<"says", "reports", "confirms", "denies">>)

\* C17: a string that holds an avoid keyword as a substring in any letter
\* case, or that matches one of the word-bounded patterns or the headline
\* pattern, is classified sensitive: _is_sensitive_topic returns True on it.
C17_DangerousIsSensitive ==
    (verdict # None /\ (HoldsAvoidKeyword(probe) \/ MatchesDangerRegex(probe)))
        => verdict[1] = TRUE

C17_Witness ==
    /\ probe = "sKILLs day"
    /\ HoldsAvoidKeyword(probe)
    /\ ~ContainsAny(probe, avoid_keywords)
    /\ verdict = Some(TRUE)

\* C18: _is_sensitive_topic returns False on every entry of safe_topics, the
\* list _get_fallback_trends samples from, and on every entry of the padding
\* list of _get_safe_fallback_trends.
C18_StaticListsSafe ==
    (verdict # None /\ probe \in Range(safe_topics) \cup Range(_get_safe_fallback_trends))
        => verdict[1] = FALSE

C18_Witness ==
    /\ probe = safe_topics[Len(safe_topics)]
    /\ verdict = Some(FALSE)

\* C19: whatever the requests and their interleaving, the list of sources is
\* never started on less than min_request_interval after it was last started
\* on.
C19_ChainStartsSpaced ==
    [][ \A c \in Callers :
           (calls[c].pc = "idle" /\ calls'[c].pc = "awaiting" /\ chain_start # None)
               => now' - chain_start[1] >= min_request_interval ]_vars

\* C20: a request that finds the cache valid is answered without the sleep of
\* the rate limiter: the clock does not move in the step that answers it.
C20_CachedAnswerNoSleep == [][ event'.via = "cache" => now' = now ]_vars

\* C21: fetch_trends_multi_source ends every pass over a source by going on
\* or by returning: a source that raised or returned nothing makes it await
\* the next source, or, after the last one, return a list that
\* _get_fallback_trends selected; and every list it returns, from the cache,
\* from a source or from the fallback, is non-empty.
C21_FetchFallsThroughToAList ==
    [][ /\ event'.via # "none" => Len(event'.trends) >= 1
        /\ \A c \in Callers :
              ( /\ calls[c].pc = "awaiting"
                /\ event'.caller = c
                /\ event'.outcome \in {"raised", "empty"} ) =>
                 IF calls[c].i < Len(sources)
                 THEN /\ calls'[c].pc = "awaiting"
                      /\ calls'[c].i = calls[c].i + 1
                      /\ event'.via = "none"
                 ELSE /\ calls'[c].pc = "idle"
                      /\ event'.via = "fallback"
                      /\ event'.trends \in _get_fallback_trends
                      /\ cached_trends' = Some(event'.trends) ]_vars

\* the last source raised and the fetch returned the fallback selection
C21_Witness ==
    /\ event.via = "fallback"
    /\ event.src = Len(sources)
    /\ event.outcome = "raised"
    /\ Len(event.trends) = SourceTop

\* C22: every request that gets its list of trends returns in the same step
\* with a story, in attempt 1, 2 or 3 of its loop: the story
\* create_spiced_story selected from that list, with its hook keywords, when
\* the trend of that story is classified safe, and the fixed fallback story
\* after the third attempt otherwise.
C22_StoryWithinThreeAttempts ==
    event.via # "none" =>
        /\ event.story # None
        /\ event.story_attempts \in 1..3
        /\ \E rnd \in Choices :
              LET story_data == create_spiced_story(event.trends, rnd) IN
              IF ~SensitiveTable[story_data.original_trend]
              THEN /\ event.story_attempts = 1
                   /\ event.story[1] =
                         WithHooks(story_data, Some(HookTable[story_data.original_trend]))
              ELSE /\ event.story_attempts = 3
                   /\ event.story[1] = WithHooks(_get_fallback_story, None)

\* a request returned with a story made from a trend of the list it fetched
C22_Witness ==
    /\ event.via = "source"
    /\ event.story # None
    /\ event.story_attempts = 1
    /\ event.story[1].original_trend = SafeTrend
    /\ event.story[1].original_trend \in Range(event.trends)

StrategyNames ==
    << "direct_parse", "extract_json", "json_repair_lib", "regex_repair", "ast_repair",
       "template_reconstruction" >>

\* what strategy k alone gives on the response: None when it fails
StrategyResult(k, r, lib) ==
    CASE k = 1 -> _strategy_direct_parse(r)
      [] k = 2 -> _strategy_extract_json(r)
      [] k = 3 -> _strategy_json_repair_lib(r, lib)
      [] k = 4 -> _strategy_regex_repair(r)
      [] k = 5 -> _strategy_ast_repair(r)
      [] k = 6 -> _strategy_template_reconstruction(r)

Succeeding(r, lib) == {k \in 1..6 : StrategyResult(k, r, lib) # None}

\* C23: the record returned is the output of the first of direct_parse,
\* extract_json, json_repair_lib, regex_repair, ast_repair and
\* template_reconstruction, in this order, that gave a mapping with the six
\* required keys, every strategy before it having failed; the default
\* fallback gives the result only when all six failed.
C23_FirstSuccessInOrder ==
    repaired # None =>
        \E lib \in LibResults(response) :
            IF Succeeding(response, lib) # {}
            THEN LET k == Least(Succeeding(response, lib)) IN
                 /\ repaired[1] = Repaired(StrategyResult(k, response, lib)[1], StrategyNames[k])
                 /\ _validate_structure(repaired[1].v)
            ELSE repaired[1] = Caught(_strategy_default_fallback(response))

\* strategies 1 to 5 failed on the response and the sixth gave the record
C23_Witness ==
    /\ repaired # None
    /\ repaired[1].strategy = "template_reconstruction"
    /\ \A k \in {1, 2, 4, 5} : StrategyResult(k, response, None) = None
    /\ repaired[1].v = _strategy_template_reconstruction(response)[1]

\* C24: on every response text that strategies 1 to 6 fail on, whatever
\* JSON value it spells, _strategy_default_fallback returns a record and does
\* not raise.
C24_FallbackNeverRaises ==
    (repaired # None /\ repaired[1].strategy \notin Range(StrategyNames)) =>
        /\ ~_strategy_default_fallback(response).raised
        /\ repaired[1].strategy = "default_fallback"

\* C25: strategy 2 gives what the brace counting gives on the content, the
\* wrapper's "response" text or else the response text itself: the validated
\* parse of the slice from the first "{" to the brace that brings the depth
\* back to zero, and nothing when the content is no string, has no "{" or
\* never closes it.
C25_ExtractOnContent ==
    (repaired # None /\ repaired[1].strategy # "direct_parse") =>
        _strategy_extract_json(response) =
            IF ContentOf(response).t # "str" THEN None
            ELSE BraceCounted(ContentOf(response).v, Find(ContentOf(response).v, "{", 1))

\* C26: no string _filter_and_validate_trends returns is shorter than 3 or
\* longer than 150 characters, holds one of < > { } [ ] \ | ~ or the grave
\* accent, or is news-like for _looks_like_news.
C26_FilteredTrendsWellFormed ==
    filter_out # None =>
        \A k \in 1..Len(filter_out[1]) :
            /\ Len(filter_out[1][k]) >= 3
            /\ Len(filter_out[1][k]) <= 150
            /\ \A j \in 1..Len(filter_out[1][k]) :
                  Char(filter_out[1][k], j)
                      \notin {"<", ">", "{", "}", "[", "]", "\\", "|", Backtick, "~"}
            /\ ~_looks_like_news(filter_out[1][k])

\* a trend of 150 characters was kept where candidates with a grave accent,
\* of 151 characters and news-like were dropped
C26_Witness ==
    /\ \E k \in 1..Len(filter_in) : Backtick \in Range([j \in 1..Len(filter_in[k]) |-> Char(filter_in[k], j)])
    /\ FullLengthTrend \in Range(filter_in)
    /\ filter_out # None
    /\ filter_out[1][1] = FullLengthTrend
    /\ Len(filter_out[1]) = 1 + PadCount

\* the candidates of the list that pass the tests of the loop
KeptOf(trends) == {k \in 1..Len(trends) : KeepsTrend(trends[k])}

\* C27: _filter_and_validate_trends returns between 3 and 10 entries on every
\* list: with fewer than 3 candidates kept, the kept ones followed by the
\* first 5 entries of the padding list, and otherwise the kept ones up to 10;
\* so a non-empty batch never gives an empty result.
C27_ThreeToTenEntries ==
    filter_out # None =>
        /\ Len(filter_out[1]) \in 3..10
        /\ IF Cardinality(KeptOf(filter_in)) < 3
           THEN /\ Len(filter_out[1]) = Cardinality(KeptOf(filter_in)) + 5
                /\ SubSeq(filter_out[1], Len(filter_out[1]) - 4, Len(filter_out[1]))
                      = SubSeq(_get_safe_fallback_trends, 1, 5)
           ELSE Len(filter_out[1]) = Min(Cardinality(KeptOf(filter_in)), 10)

\* one candidate of two was kept and five padding topics follow it
C27_Witness ==
    /\ Len(filter_in) = 2
    /\ Cardinality(KeptOf(filter_in)) = 1
    /\ filter_out # None
    /\ Len(filter_out[1]) = 6
    /\ filter_out[1][1] = "abc"
    /\ filter_out[1][6] = "Travel destinations"

\* a request gets to the cache test of fetch_trends_multi_source in this step
AtCacheTest(c) == calls[c].pc = "idle" /\ event'.caller = c

\* C28, as stated: once every source failed and the fallback selection was
\* cached, every fetch made before the expiry written with it returns that
\* same list and awaits no source; the sources are started on again only
\* from that expiry on.
C28_FallbackServedUntilExpiry ==
    [][ /\ event'.via = "fallback" =>
              /\ cached_trends' = Some(event'.trends)
              /\ cache_expiry' = now' + cache_duration
        /\ \A c \in Callers :
              (AtCacheTest(c) /\ fallback_cached # None /\ now' < fallback_cached[1].expiry) =>
                  /\ event'.via = "cache"
                  /\ event'.trends = fallback_cached[1].trends
                  /\ calls'[c].pc = "idle" ]_vars

\* C28, amended: the fallback selection is cached with the expiry now +
\* cache_duration; every fetch made before that expiry awaits no source and
\* returns the cached list, which is that selection unless a fetch that was
\* already awaiting a source when it was written has cached its own list
\* since; the sources are started on again only from that expiry on.
C28_CacheServedUntilExpiry ==
    [][ /\ event'.via = "fallback" =>
              /\ cached_trends' = Some(event'.trends)
              /\ cache_expiry' = now' + cache_duration
              /\ fallback_cached' = Some([trends |-> event'.trends,
                                          expiry |-> now' + cache_duration])
        /\ \A c \in Callers :
              (AtCacheTest(c) /\ fallback_cached # None /\ now' < fallback_cached[1].expiry) =>
                  /\ event'.via = "cache"
                  /\ calls'[c].pc = "idle"
                  /\ event'.trends = cached_trends[1]
                  /\ \/ event'.trends = fallback_cached[1].trends
                     \/ /\ cached_trends # Some(fallback_cached[1].trends)
                        /\ cache_expiry >= fallback_cached[1].expiry ]_vars

\* a request made TickStep after the fallback selection was cached got that
\* selection from the cache
C28_Witness ==
    /\ fallback_cached # None
    /\ event.via = "cache"
    /\ event.trends = fallback_cached[1].trends
    /\ now = fallback_cached[1].expiry - cache_duration + TickStep

\* C29: every spiced_story that create_spiced_story returns, rendered from a
\* template or the fallback one, is classified safe by _is_sensitive_topic.
C29_SpicedStorySafe ==
    (entry = "create_spiced_story" /\ story_out # None) =>
        ~StoryTextSensitive[story_out[1].story.spiced_story]

\* C30: every story get_trending_spiced_story returns carries a hook_keywords
\* field that holds between 1 and 3 keywords.
C30_StoryCarriesHookKeywords ==
    (event.via # "none" /\ event.story # None) =>
        LET story_data == event.story[1] IN
        /\ story_data.hook_keywords # None
        /\ Len(story_data.hook_keywords[1]) \in 1..MaxKeywords

\* a request was answered with a story told of a live trend of four keywords,
\* of which the story carries three
C30_Witness ==
    /\ event.story # None
    /\ event.story[1].original_trend = SafeTrend
    /\ Len(UncappedKeywords(SafeTrend)) > MaxKeywords
    /\ event.story[1].hook_keywords = Some(Take(UncappedKeywords(SafeTrend), MaxKeywords))

====
